---- MODULE Spec2Model ----
(***************************************************************************)
(* TremorSense: the persistence layer (utils/storage), the recording       *)
(* workflow (hooks useSensors / useRecording and the record screen) and    *)
(* the trend analysis (utils/analysis), as state machines.                 *)
(*                                                                         *)
(* Specifications:                                                         *)
(*   SpecStorage   sequential storage operations under storage faults      *)
(*   SpecLoad      loadAllSessions over any stored session array           *)
(*   SpecConc      interleaved load-modify-write operations, no faults     *)
(*   SpecSettings  loadSettings / saveSettings under storage faults        *)
(*   Spec          the recording workflow of the record screen             *)
(*   SpecHook      useRecording with startRecording called at any time     *)
(*   SpecAnalysis  generateTrendAnalysis over bounded histories            *)
(***************************************************************************)
EXTENDS Integers, Sequences, FiniteSets, TLC

VARIABLES
    \* utils/storage: the durable store, the in-memory fallback, the flag
    AsyncStorage, memoryStorage, isAsyncStorageAvailable,
    \* history of the storage calls made so far (observation only)
    nextId, committed, removed, lastOp, lastLoad, lastRead, threw,
    lastFaults, lastSettings,
    \* the storage calls in flight, each between its load and its write
    calls,
    \* useSensors: state, refs, and the `enabled` the effect last ran with
    deviceSensors, sensorsChecked, isAvailable, enabledSeen,
    accelDataRef, gyroDataRef, readingsRef,
    \* useRecording: state, refs, running timers, the clock
    isRecording, countdown, progress, error, startTimeRef,
    progressIntervalRef, timers, countdowns, nextStart, now,
    \* what the last stopRecording call returned; sessions of user aborts
    lastReturn, abortedIds,
    \* the insights screen: the history it loaded and the report made of it
    loaded, analysis,
    \* a call of one analysis function by itself: its arguments, its result
    args, result

storageVars == <<AsyncStorage, memoryStorage, isAsyncStorageAvailable>>
obsVars == <<nextId, committed, removed, lastOp, lastLoad, lastRead, threw,
             lastFaults, lastSettings>>
sensorVars == <<deviceSensors, sensorsChecked, isAvailable, enabledSeen,
                accelDataRef, gyroDataRef, readingsRef>>
recordingVars == <<isRecording, countdown, progress, error, startTimeRef,
                   progressIntervalRef, timers, countdowns, nextStart, now,
                   lastReturn, abortedIds>>
recordingVarsButReturn ==
    <<isRecording, countdown, progress, error, startTimeRef,
      progressIntervalRef, timers, countdowns, nextStart, now, abortedIds>>
recVars == <<sensorVars, recordingVars>>
analysisVars == <<loaded, analysis, args, result>>
vars == <<storageVars, obsVars, calls, recVars, analysisVars>>

----------------------------------------------------------------------------
(* Bounds of the model *)

\* number of sessions the storage specifications save
MaxSaves == 2
\* length of the session array found in the durable store at start-up
MaxStored == 2
\* number of saveSettings calls
MaxSettingsSaves == 2
\* number of storage calls that may be in flight together
MaxCalls == 2
\* readings the buffer takes before collection ticks are no longer followed
MaxReadings == 1
\* startRecording calls that get past the availability check
MaxStarts == 2
\* sessions the record screen assembles
MaxSessions == MaxStarts
\* last value of the clock
MaxTime == 2
\* length of the longest history handed to the trend analysis
MaxHistory == 3
\* Date.now() at the analysis, in days
Today == 10
\* largest variability handed to classifyStability by itself
MaxVariability == 20
\* length of the longest history handed to calculateBaseline by itself
MaxBaseline == 4
\* length of the longest history handed to detectTrend by itself
MaxTrend == 4
\* most sessions of one context in a history analysed for correlations
MaxGroup == 3
\* length of the longest history analysed for anomalies
MaxAnomalySessions == 2
\* length of the longest series handed to detectAnomalies by itself
MaxSeries == 6
\* widest window handed to smoothData by itself
MaxWindow == 5
\* longest axis and longest buffer handed to the session assembly by itself
MaxAxis == 3
\* length of the longest history exported
MaxExport == 2
\* number of session ids the delete specification works with
MaxDeleteIds == 3
\* starts of the record button followed where the timers are kept going
MaxTimedStarts == 1
\* the recording duration set in the settings, in clock units: short
\* enough for a recording to run out before the clock stops
Duration == MaxTime - 1

----------------------------------------------------------------------------
(* utils/signalProcessing.  Samples are integer triples whose norm is an   *)
(* integer, so Math.sqrt is exact on them; a statistic that is a quotient   *)
(* is kept as numerator and denominator.                                    *)

Null == <<>>
Some(v) == <<v>>
Get(ref) == ref[1]

Min2(a, b) == IF a < b THEN a ELSE b
Abs(a) == IF a < 0 THEN 0 - a ELSE a

RECURSIVE SumSeq(_)
SumSeq(q) == IF q = <<>> THEN 0 ELSE Head(q) + SumSeq(Tail(q))

RECURSIVE MaxSeq(_)
MaxSeq(q) == IF q = <<>> THEN 0
             ELSE LET m == MaxSeq(Tail(q)) IN IF Head(q) > m THEN Head(q) ELSE m

\* Math.sqrt on a perfect square (the floor otherwise)
Sqrt(n) == CHOOSE r \in 0..n : r * r <= n /\ n < (r + 1) * (r + 1)

\* calculateMagnitude(x, y, z)
CalculateMagnitude(x, y, z) == Sqrt(x * x + y * y + z * z)

\* a calculateMagnitudeArray as long as the x axis, a missing value read as 0
CalculateMagnitudeArrayAlongX(data) ==
    LET At(q, i) == IF i <= Len(q) THEN q[i] ELSE 0
    IN [i \in 1..Len(data.x) |->
          CalculateMagnitude(data.x[i], At(data.y, i), At(data.z, i))]

\* calculateMagnitudeArray(data)
CalculateMagnitudeArray(data) ==
    LET length == Min2(Len(data.x), Min2(Len(data.y), Len(data.z)))
    IN [i \in 1..length |-> CalculateMagnitude(data.x[i], data.y[i], data.z[i])]

\* calculateTremorAmplitude(magnitude): sum |v - mean| / n, times n^2 / n^2
CalculateTremorAmplitude(magnitude) ==
    LET n == Len(magnitude)
        sum == SumSeq(magnitude)
    IN IF n = 0 THEN [num |-> 0, den |-> 1]
       ELSE [num |-> SumSeq([i \in 1..n |-> Abs(n * magnitude[i] - sum)]),
             den |-> n * n]

\* calculateVariability(magnitude), squared: the variance
CalculateVariabilitySq(magnitude) ==
    LET n == Len(magnitude)
        sum == SumSeq(magnitude)
    IN IF n = 0 THEN [num |-> 0, den |-> 1]
       ELSE [num |-> SumSeq([i \in 1..n |->
                        (n * magnitude[i] - sum) * (n * magnitude[i] - sum)]),
             den |-> n * n * n]

\* calculatePeakAmplitude(magnitude)
CalculatePeakAmplitude(magnitude) ==
    LET n == Len(magnitude)
        sum == SumSeq(magnitude)
    IN IF n = 0 THEN [num |-> 0, den |-> 1]
       ELSE [num |-> MaxSeq([i \in 1..n |-> Abs(n * magnitude[i] - sum)]),
             den |-> n]

\* calculateStats(magnitude)
CalculateStats(magnitude) ==
    [meanAmplitude |-> CalculateTremorAmplitude(magnitude),
     variabilitySq |-> CalculateVariabilitySq(magnitude),
     peakAmplitude |-> CalculatePeakAmplitude(magnitude)]

----------------------------------------------------------------------------
(* utils/analysis.  A session of the history is what the analysis reads of  *)
(* it: timestamp (in days), stats.variability (an integer), the magnitude   *)
(* series and the two context flags.  Quotients are compared by cross       *)
(* multiplication, which gives the comparison its IEEE result when the      *)
(* divisor is 0 (Infinity, or NaN for 0 / 0, which fails every comparison). *)

\* the recency window of detectTrend and generateTrendAnalysis, in days
RecencyDays == 7

\* Array.prototype.sort by an ascending numeric key; equal keys keep their
\* order.  key[i] is the key of q[i].
StableSort(q, key) ==
    LET n == Len(q)
        rank(j) == Cardinality({l \in 1..n : \/ key[l] < key[j]
                                             \/ key[l] = key[j] /\ l < j}) + 1
    IN [i \in 1..n |-> q[CHOOSE j \in 1..n : rank(j) = i]]

Variabilities(sessions) == [i \in 1..Len(sessions) |-> sessions[i].variability]

\* Arrays live on a heap, a sequence of arrays; the argument of a call is
\* heap[1], filter allocates behind it, sort works on the array it is
\* called on.

\* sessions.sort(...).filter(...): the argument itself is sorted
SortFilter(heap, cutoff, sign) ==
    LET sessions == heap[1]
        sorted == StableSort(sessions, [i \in 1..Len(sessions) |->
                                          sign * sessions[i].timestamp])
    IN <<sorted, SelectSeq(sorted, LAMBDA s : s.timestamp >= cutoff)>>

\* sessions.filter(s => s.timestamp >= cutoff).sort(by timestamp);
\* sign 1: ascending (a - b), sign -1: descending (b - a)
FilterSort(heap, cutoff, sign) ==
    LET filtered == SelectSeq(heap[1], LAMBDA s : s.timestamp >= cutoff)
    IN Append(heap, StableSort(filtered, [i \in 1..Len(filtered) |->
                                           sign * filtered[i].timestamp]))

\* the array a chain of array calls returns
Newest(heap) == heap[Len(heap)]

\* Math.ceil in the place of Math.round
CeilQuotient(num, den) == (num + den - 1) \div den

\* Math.round of num / den, den > 0, num >= 0
RoundQuotient(num, den) == (2 * num + den) \div (2 * den)

\* a smoothData that divides every window sum by windowSize
SmoothDataFixedDenominator(data, windowSize) ==
    LET n == Len(data)
        halfWindow == windowSize \div 2
        Avg(i) ==
            LET start == IF i - halfWindow > 0 THEN i - halfWindow ELSE 0
                end == Min2(n, i + halfWindow + 1)
                window == SubSeq(data, start + 1, end)
            IN [num |-> SumSeq(window), den |-> windowSize]
    IN IF n = 0 THEN <<>>
       ELSE IF windowSize >= n THEN [i \in 1..n |-> [num |-> data[i], den |-> 1]]
       ELSE [i \in 1..n |-> Avg(i - 1)]

\* smoothData(data, windowSize): the moving average, each value a quotient
\* (a value of the input returned as it is has the denominator 1)
SmoothData(data, windowSize) ==
    LET n == Len(data)
        halfWindow == windowSize \div 2
        \* the value pushed for the (0-based) index i
        Avg(i) ==
            LET start == IF i - halfWindow > 0 THEN i - halfWindow ELSE 0
                end == Min2(n, i + halfWindow + 1)
                \* data.slice(start, end)
                window == SubSeq(data, start + 1, end)
            IN [num |-> SumSeq(window), den |-> Len(window)]
    IN IF n = 0 THEN <<>>
       ELSE IF windowSize >= n THEN [i \in 1..n |-> [num |-> data[i], den |-> 1]]
       ELSE [i \in 1..n |-> Avg(i - 1)]

\* a detectAnomalies that takes a z-score equal to the threshold too
DetectAnomaliesFromThreshold(magnitude, threshold) ==
    LET n == Len(magnitude)
        sum == SumSeq(magnitude)
        variance == CalculateVariabilitySq(magnitude)
        Anomalous(i) ==
            n * (n * magnitude[i] - sum) * (n * magnitude[i] - sum)
                >= threshold * threshold * variance.num
    IN IF n = 0 THEN <<>>
       ELSE [k \in 1..Cardinality({i \in 1..n : Anomalous(i)}) |->
               (CHOOSE i \in 1..n :
                    /\ Anomalous(i)
                    /\ Cardinality({j \in 1..i : Anomalous(j)}) = k) - 1]

\* detectAnomalies(magnitude, threshold): the (0-based) indices whose
\* z-score exceeds threshold; z > t  iff  n (n v - sum)^2 > t^2 sum_i (n v_i - sum)^2
DetectAnomalies(magnitude, threshold) ==
    LET n == Len(magnitude)
        sum == SumSeq(magnitude)
        variance == CalculateVariabilitySq(magnitude)
        Anomalous(i) ==
            n * (n * magnitude[i] - sum) * (n * magnitude[i] - sum)
                > threshold * threshold * variance.num
    IN IF n = 0 THEN <<>>
       ELSE [k \in 1..Cardinality({i \in 1..n : Anomalous(i)}) |->
               (CHOOSE i \in 1..n :
                    /\ Anomalous(i)
                    /\ Cardinality({j \in 1..i : Anomalous(j)}) = k) - 1]

\* a classifyStability that tests for 'variable' before 'increasing'
ClassifyVariableFirst(currentVariability, baselineVariability, trend) ==
    LET den == IF baselineVariability.num = 0 THEN 1
               ELSE baselineVariability.num
        num == IF baselineVariability.num = 0 THEN currentVariability
               ELSE currentVariability * baselineVariability.den
    IN IF 10 * num < 11 * den /\ trend = "stable"
       THEN [type |-> "stable", confidence |-> 9]
       ELSE IF 5 * num > 6 * den
       THEN [type |-> "variable", confidence |-> 7]
       ELSE IF 2 * num > 3 * den \/ trend = "increasing"
       THEN [type |-> "increasing", confidence |-> 8]
       ELSE [type |-> "irregular", confidence |-> 6]

\* classifyStability(currentVariability, baselineVariability, trend);
\* the baseline is a quotient, the confidence is in tenths
ClassifyStability(currentVariability, baselineVariability, trend) ==
    LET den == IF baselineVariability.num = 0 THEN 1
               ELSE baselineVariability.num
        num == IF baselineVariability.num = 0 THEN currentVariability
               ELSE currentVariability * baselineVariability.den
    IN IF 10 * num < 11 * den /\ trend = "stable"
       THEN [type |-> "stable", confidence |-> 9]
       ELSE IF 2 * num > 3 * den \/ trend = "increasing"
       THEN [type |-> "increasing", confidence |-> 8]
       ELSE IF 5 * num > 6 * den
       THEN [type |-> "variable", confidence |-> 7]
       ELSE [type |-> "irregular", confidence |-> 6]

\* a calculateBaseline that leaves out the sort
CalculateBaselineUnsorted(sessions) ==
    LET sorted == Variabilities(sessions)
        medianIndex == Len(sorted) \div 2
    IN IF Len(sessions) = 0 THEN [num |-> 0, den |-> 1]
       ELSE IF Len(sorted) % 2 = 0
       THEN [num |-> sorted[medianIndex] + sorted[medianIndex + 1], den |-> 2]
       ELSE [num |-> sorted[medianIndex + 1], den |-> 1]

\* calculateBaseline(sessions): the median, as a quotient
CalculateBaseline(sessions) ==
    LET variabilities == Variabilities(sessions)
        sorted == StableSort(variabilities, variabilities)
        medianIndex == Len(sorted) \div 2
    IN IF Len(sessions) = 0 THEN [num |-> 0, den |-> 1]
       ELSE IF Len(sorted) % 2 = 0
       THEN [num |-> sorted[medianIndex] + sorted[medianIndex + 1], den |-> 2]
       ELSE [num |-> sorted[medianIndex + 1], den |-> 1]

\* a detectTrend that leaves out the check of the recent count
DetectTrendAnyRecent(sessions, days, clock) ==
    LET cutoff == clock - days
        recent == Newest(FilterSort(<<sessions>>, cutoff, 1))
        variabilities == Variabilities(recent)
        half == Len(variabilities) \div 2
        firstHalf == SubSeq(variabilities, 1, half)
        secondHalf == SubSeq(variabilities, half + 1, Len(variabilities))
        changeNum == 100 * (SumSeq(secondHalf) * Len(firstHalf)
                              - SumSeq(firstHalf) * Len(secondHalf))
        changeDen == SumSeq(firstHalf) * Len(secondHalf)
    IN IF Len(sessions) < 3 THEN "stable"
       ELSE IF changeNum > 15 * changeDen THEN "increasing"
       ELSE IF changeNum < 0 - 15 * changeDen THEN "decreasing"
       ELSE "stable"

\* a detectTrend that splits at ceil(n / 2)
DetectTrendLargerFirst(sessions, days, clock) ==
    LET cutoff == clock - days
        recent == Newest(FilterSort(<<sessions>>, cutoff, 1))
        variabilities == Variabilities(recent)
        half == (Len(variabilities) + 1) \div 2
        firstHalf == SubSeq(variabilities, 1, half)
        secondHalf == SubSeq(variabilities, half + 1, Len(variabilities))
        changeNum == 100 * (SumSeq(secondHalf) * Len(firstHalf)
                              - SumSeq(firstHalf) * Len(secondHalf))
        changeDen == SumSeq(firstHalf) * Len(secondHalf)
    IN IF Len(sessions) < 3 THEN "stable"
       ELSE IF Len(recent) < 3 THEN "stable"
       ELSE IF changeNum > 15 * changeDen THEN "increasing"
       ELSE IF changeNum < 0 - 15 * changeDen THEN "decreasing"
       ELSE "stable"

\* detectTrend(sessions, days) at the clock value clock
DetectTrend(sessions, days, clock) ==
    LET cutoff == clock - days
        recent == Newest(FilterSort(<<sessions>>, cutoff, 1))
        variabilities == Variabilities(recent)
        half == Len(variabilities) \div 2
        firstHalf == SubSeq(variabilities, 1, half)
        secondHalf == SubSeq(variabilities, half + 1, Len(variabilities))
        \* change = (secondAvg - firstAvg) / firstAvg, times 100
        changeNum == 100 * (SumSeq(secondHalf) * Len(firstHalf)
                              - SumSeq(firstHalf) * Len(secondHalf))
        changeDen == SumSeq(firstHalf) * Len(secondHalf)
    IN IF Len(sessions) < 3 THEN "stable"
       ELSE IF Len(recent) < 3 THEN "stable"
       ELSE IF changeNum > 15 * changeDen THEN "increasing"
       ELSE IF changeNum < 0 - 15 * changeDen THEN "decreasing"
       ELSE "stable"

\* a correlation block that reports a difference of 10% and more
CorrelationFromTenPercent(sessions, flag, name) ==
    LET with == SelectSeq(sessions, LAMBDA s : s[flag])
        without == SelectSeq(sessions, LAMBDA s : ~s[flag])
        \* diff = (withAvg - withoutAvg) / withoutAvg
        diffNum == SumSeq(Variabilities(with)) * Len(without)
                     - SumSeq(Variabilities(without)) * Len(with)
        diffDen == SumSeq(Variabilities(without)) * Len(with)
    IN IF Len(with) > 2 /\ Len(without) > 2 /\ 10 * Abs(diffNum) >= diffDen
       THEN <<[context |-> name,
               impact |-> IF diffNum > 0 THEN "negative" ELSE "positive",
               percent |-> IF diffDen = 0 THEN 0 - 1
                           ELSE RoundQuotient(100 * Abs(diffNum), diffDen),
               direction |-> IF diffNum > 0 THEN "higher" ELSE "lower"]>>
       ELSE <<>>

\* the correlation block of generateTrendAnalysis for one context flag:
\* no entry or one.  percent is Math.abs(diff * 100).toFixed(0), with -1
\* for 'Infinity'.
Correlation(sessions, flag, name) ==
    LET with == SelectSeq(sessions, LAMBDA s : s[flag])
        without == SelectSeq(sessions, LAMBDA s : ~s[flag])
        \* diff = (withAvg - withoutAvg) / withoutAvg
        diffNum == SumSeq(Variabilities(with)) * Len(without)
                     - SumSeq(Variabilities(without)) * Len(with)
        diffDen == SumSeq(Variabilities(without)) * Len(with)
    IN IF Len(with) > 2 /\ Len(without) > 2 /\ 10 * Abs(diffNum) > diffDen
       THEN <<[context |-> name,
               impact |-> IF diffNum > 0 THEN "negative" ELSE "positive",
               percent |-> IF diffDen = 0 THEN 0 - 1
                           ELSE RoundQuotient(100 * Abs(diffNum), diffDen),
               direction |-> IF diffNum > 0 THEN "higher" ELSE "lower"]>>
       ELSE <<>>

\* what the caller has when the call throws
Thrown ==
    [fault |-> TRUE, stabilityScore |-> 0,
     classification |-> [type |-> "none", confidence |-> 0],
     summary |-> <<>>, anomalies |-> <<>>, correlations |-> <<>>]

\* the insights screen has no report
NoReport == [Thrown EXCEPT !.fault = FALSE]

\* a generateTrendAnalysis that lists one anomaly per anomalous index
GenerateTrendAnalysisPerIndex(sessions, clock) ==
    LET baseline == CalculateBaseline(sessions)
        \* sort((a, b) => b.timestamp - a.timestamp): newest first
        recentSessions ==
            Newest(FilterSort(<<sessions>>, clock - RecencyDays, 0 - 1))
        latest == recentSessions[1]
        trend == DetectTrend(sessions, RecencyDays, clock)
        classification ==
            ClassifyStability(latest.variability, baseline, trend)
        \* variabilityRatio = ratioNum / ratioDen
        ratioDen == IF baseline.num = 0 THEN 1 ELSE baseline.num
        ratioNum == IF baseline.num = 0 THEN latest.variability
                    ELSE latest.variability * baseline.den
        \* 100 - (variabilityRatio - 1) * 50, times ratioDen
        raw == 150 * ratioDen - 50 * ratioNum
        stabilityScore == IF raw < 0 THEN 0
                          ELSE IF raw > 100 * ratioDen THEN 100
                          ELSE RoundQuotient(raw, ratioDen)
        anomalyIndices == DetectAnomalies(latest.magnitude, 2)
        anomalies ==
            [k \in 1..Len(anomalyIndices) |->
               "Unusual motion patterns detected in recent recording"]
        first ==
            IF trend = "increasing"
            THEN "Your motion variability has increased slightly over the past week."
            ELSE IF trend = "decreasing"
            THEN "Your motion variability has decreased, showing improved stability."
            ELSE "Your motion patterns have remained relatively stable."
        \* avgVariability > baseline * 1.2
        higher ==
            5 * SumSeq(Variabilities(recentSessions)) * baseline.den
                > 6 * baseline.num * Len(recentSessions)
        summaries ==
            IF Len(recentSessions) > 0 /\ higher
            THEN <<first, "Recent recordings show higher variability compared to your baseline.">>
            ELSE <<first>>
        correlations == Correlation(sessions, "caffeine", "Caffeine")
                          \o Correlation(sessions, "stress", "Stress")
    IN IF Len(sessions) = 0
       THEN [fault |-> FALSE, stabilityScore |-> 50,
             classification |-> [type |-> "stable", confidence |-> 5],
             summary |-> <<"No data available yet. Start recording to see insights.">>,
             anomalies |-> <<>>, correlations |-> <<>>]
       \* recentSessions[0] is undefined: latest.stats throws a TypeError
       ELSE IF Len(recentSessions) = 0 THEN Thrown
       ELSE [fault |-> FALSE, stabilityScore |-> stabilityScore,
             classification |-> classification, summary |-> summaries,
             anomalies |-> anomalies, correlations |-> correlations]

\* generateTrendAnalysis(sessions) at the clock value clock
GenerateTrendAnalysis(sessions, clock) ==
    LET baseline == CalculateBaseline(sessions)
        \* sort((a, b) => b.timestamp - a.timestamp): newest first
        recentSessions ==
            Newest(FilterSort(<<sessions>>, clock - RecencyDays, 0 - 1))
        latest == recentSessions[1]
        trend == DetectTrend(sessions, RecencyDays, clock)
        classification ==
            ClassifyStability(latest.variability, baseline, trend)
        \* variabilityRatio = ratioNum / ratioDen
        ratioDen == IF baseline.num = 0 THEN 1 ELSE baseline.num
        ratioNum == IF baseline.num = 0 THEN latest.variability
                    ELSE latest.variability * baseline.den
        \* 100 - (variabilityRatio - 1) * 50, times ratioDen
        raw == 150 * ratioDen - 50 * ratioNum
        stabilityScore == IF raw < 0 THEN 0
                          ELSE IF raw > 100 * ratioDen THEN 100
                          ELSE RoundQuotient(raw, ratioDen)
        anomalyIndices == DetectAnomalies(latest.magnitude, 2)
        anomalies ==
            IF 10 * Len(anomalyIndices) > Len(latest.magnitude)
            THEN <<"Unusual motion patterns detected in recent recording">>
            ELSE <<>>
        first ==
            IF trend = "increasing"
            THEN "Your motion variability has increased slightly over the past week."
            ELSE IF trend = "decreasing"
            THEN "Your motion variability has decreased, showing improved stability."
            ELSE "Your motion patterns have remained relatively stable."
        \* avgVariability > baseline * 1.2
        higher ==
            5 * SumSeq(Variabilities(recentSessions)) * baseline.den
                > 6 * baseline.num * Len(recentSessions)
        summaries ==
            IF Len(recentSessions) > 0 /\ higher
            THEN <<first, "Recent recordings show higher variability compared to your baseline.">>
            ELSE <<first>>
        correlations == Correlation(sessions, "caffeine", "Caffeine")
                          \o Correlation(sessions, "stress", "Stress")
    IN IF Len(sessions) = 0
       THEN [fault |-> FALSE, stabilityScore |-> 50,
             classification |-> [type |-> "stable", confidence |-> 5],
             summary |-> <<"No data available yet. Start recording to see insights.">>,
             anomalies |-> <<>>, correlations |-> <<>>]
       \* recentSessions[0] is undefined: latest.stats throws a TypeError
       ELSE IF Len(recentSessions) = 0 THEN Thrown
       ELSE [fault |-> FALSE, stabilityScore |-> stabilityScore,
             classification |-> classification, summary |-> summaries,
             anomalies |-> anomalies, correlations |-> correlations]

\* the argument array as a call of generateTrendAnalysis leaves it:
\* calculateBaseline sorts the array its map made, generateTrendAnalysis
\* and detectTrend each sort what their filter made
SessionsAfterAnalysis(sessions, clock) ==
    LET afterRecent == FilterSort(<<sessions>>, clock - RecencyDays, 0 - 1)[1]
        afterTrend ==
            IF Len(afterRecent) < 3 THEN afterRecent
            ELSE FilterSort(<<afterRecent>>, clock - RecencyDays, 1)[1]
    IN IF Len(sessions) = 0 THEN sessions ELSE afterTrend

----------------------------------------------------------------------------
(* Stored values.  A value under a key is a string; it is modelled by what  *)
(* JSON.parse makes of it: absent, unparsable, or an array of elements.     *)

\* duration, the raw axes, the magnitude series and its stats
EmptyBody ==
    [duration |-> 0,
     accelerometer |-> [x |-> <<>>, y |-> <<>>, z |-> <<>>],
     gyroscope |-> [x |-> <<>>, y |-> <<>>, z |-> <<>>],
     magnitude |-> <<>>,
     stats |-> CalculateStats(<<>>)]

FieldNames == {"id", "timestamp", "accelerometer", "gyroscope", "magnitude"}

\* A RecordingSession as it lies in the array: nul marks a null element,
\* absent the fields the object does not have; id 0 stands for the empty
\* string and timestamp 0 for the number 0 (both present, both falsy).
StoredSession(id, timestamp, absent, nul) ==
    [id |-> id, timestamp |-> timestamp, absent |-> absent, nul |-> nul,
     body |-> EmptyBody]

\* a session written by an earlier recording: every field set, id non-empty
NewSession(id, timestamp) == StoredSession(id, timestamp, {}, FALSE)

NoData == [present |-> FALSE, parses |-> TRUE, arr |-> <<>>]
Unparsable == [present |-> TRUE, parses |-> FALSE, arr |-> <<>>]

\* JSON.stringify(sessions)
Stringify(sessions) == [present |-> TRUE, parses |-> TRUE, arr |-> sessions]

\* session.f is truthy (the element is an object)
Truthy(s, f) ==
    /\ f \notin s.absent
    /\ (f = "id" => s.id # 0)
    /\ (f = "timestamp" => s.timestamp # 0)

\* the filter predicate of loadAllSessions
LoadKeeps(s) == \A f \in FieldNames : Truthy(s, f)

IdsOf(sessions) == {sessions[i].id : i \in 1..Len(sessions)}

----------------------------------------------------------------------------
(* utils/storage as functions of the store st = [as, mem, avail]:           *)
(* as is AsyncStorage, mem is memoryStorage, avail isAsyncStorageAvailable. *)

SESSIONS_KEY == "sessions"
SETTINGS_KEY == "settings"

Store == [as |-> AsyncStorage, mem |-> memoryStorage,
          avail |-> isAsyncStorageAvailable]

\* loadAllSessions; getFails: AsyncStorage.getItem throws.
\* Returns the store (the flag may have flipped), the value read and the list.
LoadAllSessions(st, getFails) ==
    LET useAsync == st.avail /\ ~getFails
        st1 == [st EXCEPT !.avail = useAsync]
        data == IF useAsync THEN st.as[SESSIONS_KEY] ELSE st.mem[SESSIONS_KEY]
        \* JSON.parse throws, or session.id of a null element throws:
        \* both land in the outer catch, which returns []
        faults == \/ ~data.parses
                  \/ \E i \in 1..Len(data.arr) : data.arr[i].nul
        ret == IF ~data.present \/ faults THEN <<>>
               ELSE SelectSeq(data.arr, LoadKeeps)
    IN [st |-> st1, read |-> data, ret |-> ret]

\* The two fault inputs of a write: setItem throws, JSON.stringify throws.
\* saveSession after its first loadAllSessions returned `sessions`.
SaveWrite(st, sessions, session, f) ==
    LET data == Stringify(Append(sessions, session))
        primaryThrows == f.str \/ (st.avail /\ f.set)
        primary == IF st.avail
                   THEN [st EXCEPT !.as[SESSIONS_KEY] = data]
                   ELSE [st EXCEPT !.mem[SESSIONS_KEY] = data]
        \* catch: fallback to memory storage, after a second loadAllSessions
        l2 == LoadAllSessions(st, f.get2)
        fallback == [l2.st EXCEPT
                       !.mem[SESSIONS_KEY] = Stringify(Append(l2.ret, session))]
    IN IF ~primaryThrows THEN [st |-> primary, threw |-> FALSE]
       ELSE IF ~f.str THEN [st |-> fallback, threw |-> FALSE]
       ELSE [st |-> l2.st, threw |-> TRUE]

\* saveSession(session)
SaveSession(st, session, f) ==
    LET l == LoadAllSessions(st, f.get)
    IN SaveWrite(l.st, l.ret, session, f)

\* the write of deleteSession / deleteSessions after loadAllSessions
DeleteWrite(st, filtered, f) ==
    LET data == Stringify(filtered)
    IN IF f.str THEN [st |-> st, threw |-> TRUE]
       ELSE IF st.avail /\ ~f.set
            THEN [st |-> [st EXCEPT !.as[SESSIONS_KEY] = data], threw |-> FALSE]
            ELSE [st |-> [st EXCEPT !.avail = FALSE, !.mem[SESSIONS_KEY] = data],
                  threw |-> FALSE]

\* a deleteSessions whose filter keeps the listed sessions
DeleteSessionsInverted(st, sessionIds, f) ==
    LET l == LoadAllSessions(st, f.get)
        filtered == SelectSeq(l.ret, LAMBDA s : s.id \in sessionIds)
    IN DeleteWrite(l.st, filtered, f)

\* deleteSessions(sessionIds)
DeleteSessions(st, sessionIds, f) ==
    LET l == LoadAllSessions(st, f.get)
        filtered == SelectSeq(l.ret, LAMBDA s : s.id \notin sessionIds)
    IN DeleteWrite(l.st, filtered, f)

\* deleteSession(sessionId)
DeleteSession(st, sessionId, f) ==
    LET l == LoadAllSessions(st, f.get)
        filtered == SelectSeq(l.ret, LAMBDA s : s.id # sessionId)
    IN DeleteWrite(l.st, filtered, f)

\* clearAllSessions; removeFails: AsyncStorage.removeItem throws
ClearAllSessions(st, removeFails) ==
    IF st.avail /\ ~removeFails
    THEN [st EXCEPT !.as[SESSIONS_KEY] = NoData]
    ELSE [st EXCEPT !.avail = FALSE, !.mem[SESSIONS_KEY] = NoData]

Faults == [get : BOOLEAN, set : BOOLEAN, get2 : BOOLEAN, str : BOOLEAN]
\* deleteSession and deleteSessions load once
DeleteFaults == {f \in Faults : ~f.get2}
NoFaults == [get |-> FALSE, set |-> FALSE, get2 |-> FALSE, str |-> FALSE]

----------------------------------------------------------------------------
(* Settings.  A stored settings object has each field set or missing; a    *)
(* set field holds whatever was written, recognized by this version or not. *)

MissingStr == "missing"
MissingNum == 0 - 1

DEFAULT_SETTINGS ==
    [samplingRate |-> "medium", recordingDuration |-> 10, theme |-> "dark"]

SamplingRates == {"low", "medium", "high"}
Themes == {"light", "dark", "auto"}

NoSettings == [present |-> FALSE, parses |-> TRUE, obj |-> DEFAULT_SETTINGS]
UnparsableSettings == [present |-> TRUE, parses |-> FALSE, obj |-> DEFAULT_SETTINGS]
StringifySettings(settings) == [present |-> TRUE, parses |-> TRUE, obj |-> settings]

\* { ...DEFAULT_SETTINGS, ...settings }: the defaults reversed
MergeDefaultsLast(settings) == DEFAULT_SETTINGS

\* { ...DEFAULT_SETTINGS, ...settings }
MergeSettings(settings) ==
    [samplingRate |-> IF settings.samplingRate = MissingStr
                      THEN DEFAULT_SETTINGS.samplingRate
                      ELSE settings.samplingRate,
     recordingDuration |-> IF settings.recordingDuration = MissingNum
                           THEN DEFAULT_SETTINGS.recordingDuration
                           ELSE settings.recordingDuration,
     theme |-> IF settings.theme = MissingStr
               THEN DEFAULT_SETTINGS.theme
               ELSE settings.theme]

\* loadSettings; getFails: AsyncStorage.getItem throws
LoadSettings(st, getFails) ==
    LET useAsync == st.avail /\ ~getFails
        data == IF useAsync THEN st.as[SETTINGS_KEY] ELSE st.mem[SETTINGS_KEY]
        ret == IF ~data.present \/ ~data.parses THEN DEFAULT_SETTINGS
               ELSE MergeSettings(data.obj)
    IN [st |-> [st EXCEPT !.avail = useAsync], read |-> data, ret |-> ret]

\* saveSettings(settings); setFails: AsyncStorage.setItem throws
SaveSettings(st, settings, setFails) ==
    LET data == StringifySettings(settings)
    IN IF st.avail /\ ~setFails
       THEN [st EXCEPT !.as[SETTINGS_KEY] = data]
       ELSE [st EXCEPT !.avail = FALSE, !.mem[SETTINGS_KEY] = data]

----------------------------------------------------------------------------
(* State after module load, and the observation variables at rest *)

EmptyStorage == [sessions |-> NoData, settings |-> NoSettings]

ObsInit ==
    /\ nextId = 1
    /\ committed = {}
    /\ removed = {}
    /\ lastOp = "none"
    /\ lastLoad = <<>>
    /\ lastRead = NoData
    /\ threw = FALSE
    /\ lastFaults = NoFaults
    /\ lastSettings = [read |-> NoSettings, ret |-> DEFAULT_SETTINGS]

\* a call slot: free, or a call that has loaded `sessions` and not yet written
FreeCall == [pc |-> "free", op |-> "none", ids |-> {}, sessions |-> <<>>,
             session |-> NewSession(0, 0)]
FreeSlots == {c \in 1..MaxCalls : calls[c].pc = "free"}
NoCalls == [c \in 1..MaxCalls |-> FreeCall]

\* the hooks at rest: nothing mounted has acted yet
HooksIdle ==
    /\ deviceSensors \in BOOLEAN
    /\ sensorsChecked = FALSE
    /\ isAvailable = FALSE
    /\ enabledSeen = FALSE
    /\ accelDataRef = Null
    /\ gyroDataRef = Null
    /\ readingsRef = <<>>
    /\ isRecording = FALSE
    /\ countdown = Null
    /\ progress = 0
    /\ error = "none"
    /\ startTimeRef = Null
    /\ progressIntervalRef = Null
    /\ timers = {}
    /\ countdowns = {}
    /\ nextStart = 1
    /\ now = 1
    /\ lastReturn = "none"
    /\ abortedIds = {}

\* the insights screen before its first loadData
AnalysisIdle ==
    /\ loaded = <<>>
    /\ analysis = NoReport
    /\ args = <<>>
    /\ result = <<>>

RecIdle == HooksIdle /\ AnalysisIdle

\* the storage specifications do not mount the record screen
RecOff == RecIdle /\ deviceSensors = FALSE

SetStore(st) ==
    /\ AsyncStorage' = st.as
    /\ memoryStorage' = st.mem
    /\ isAsyncStorageAvailable' = st.avail

----------------------------------------------------------------------------
(* SpecStorage: the storage calls one after the other, each with its faults *)

StorageInit ==
    /\ AsyncStorage = EmptyStorage
    /\ memoryStorage = EmptyStorage
    /\ isAsyncStorageAvailable \in BOOLEAN
    /\ ObsInit
    /\ calls = NoCalls
    /\ RecOff

DoSave ==
    \E f \in Faults :
        LET r == SaveSession(Store, NewSession(nextId, nextId), f)
        IN /\ nextId <= MaxSaves
           /\ SetStore(r.st)
           /\ threw' = r.threw
           /\ committed' = IF r.threw THEN committed ELSE committed \cup {nextId}
           /\ nextId' = nextId + 1
           /\ lastOp' = "save"
           /\ lastFaults' = f
           /\ UNCHANGED <<recVars, analysisVars, removed, lastLoad, lastRead, lastSettings, calls>>

DoLoad ==
    \E getFails \in BOOLEAN :
        LET l == LoadAllSessions(Store, getFails)
        IN /\ SetStore(l.st)
           /\ lastLoad' = l.ret
           /\ lastRead' = l.read
           /\ lastOp' = "load"
           /\ threw' = FALSE
           /\ lastFaults' = NoFaults
           /\ UNCHANGED <<recVars, analysisVars, nextId, committed, removed, lastSettings, calls>>

DoDelete ==
    \E id \in 1..MaxSaves, f \in DeleteFaults :
        LET r == DeleteSession(Store, id, f)
        IN /\ SetStore(r.st)
           /\ threw' = r.threw
           /\ committed' = IF r.threw THEN committed ELSE committed \ {id}
           /\ removed' = IF r.threw THEN removed ELSE removed \cup {id}
           /\ lastOp' = "delete"
           /\ lastFaults' = NoFaults
           /\ UNCHANGED <<recVars, analysisVars, nextId, lastLoad, lastRead, lastSettings, calls>>

DoDeleteMany ==
    \E ids \in SUBSET (1..MaxSaves), f \in DeleteFaults :
        LET r == DeleteSessions(Store, ids, f)
        IN /\ SetStore(r.st)
           /\ threw' = r.threw
           /\ committed' = IF r.threw THEN committed ELSE committed \ ids
           /\ removed' = IF r.threw THEN removed ELSE removed \cup ids
           /\ lastOp' = "deleteMany"
           /\ lastFaults' = NoFaults
           /\ UNCHANGED <<recVars, analysisVars, nextId, lastLoad, lastRead, lastSettings, calls>>

DoClear ==
    \E removeFails \in BOOLEAN :
        /\ SetStore(ClearAllSessions(Store, removeFails))
        /\ threw' = FALSE
        /\ removed' = removed \cup committed
        /\ committed' = {}
        /\ lastOp' = "clear"
        /\ lastFaults' = NoFaults
        /\ UNCHANGED <<recVars, analysisVars, nextId, lastLoad, lastRead, lastSettings, calls>>

StorageNext == DoSave \/ DoLoad \/ DoDelete \/ DoDeleteMany \/ DoClear

SpecStorage == StorageInit /\ [][StorageNext]_vars

----------------------------------------------------------------------------
(* SpecLoad: loadAllSessions over whatever an earlier run, another version  *)
(* or a damaged file left under the sessions key                            *)

\* the elements a damaged array may hold
InitialElems ==
    {StoredSession(1, 1, {}, FALSE), StoredSession(2, 2, {}, FALSE),
     StoredSession(4, 0, {}, FALSE), StoredSession(0, 5, {}, FALSE),
     StoredSession(0, 0, {}, TRUE)}
    \cup {StoredSession(3, 3, {f}, FALSE) : f \in FieldNames}

SeqsUpTo(S, n) == UNION {[1..k -> S] : k \in 0..n}

InitialStores ==
    {NoData, Unparsable} \cup {Stringify(a) : a \in SeqsUpTo(InitialElems, MaxStored)}

LoadInit ==
    /\ \E d \in InitialStores : AsyncStorage = [EmptyStorage EXCEPT !.sessions = d]
    /\ memoryStorage = EmptyStorage
    /\ isAsyncStorageAvailable \in BOOLEAN
    /\ ObsInit
    /\ calls = NoCalls
    /\ RecOff

LoadNext == DoLoad

SpecLoad == LoadInit /\ [][LoadNext]_vars

----------------------------------------------------------------------------
(* SpecConc: saveSession, deleteSession and deleteSessions running          *)
(* concurrently.  Each awaits loadAllSessions (AsyncStorage.getItem) and    *)
(* then AsyncStorage.setItem; other calls run between the two.  No faults.  *)

ConcInit ==
    /\ AsyncStorage = EmptyStorage
    /\ memoryStorage = EmptyStorage
    /\ isAsyncStorageAvailable = TRUE
    /\ ObsInit
    /\ calls = NoCalls
    /\ RecOff

\* saveSession up to the end of its loadAllSessions
ConcSaveLoad(c) ==
    LET l == LoadAllSessions(Store, FALSE)
    IN /\ calls[c].pc = "free"
       /\ nextId <= MaxSaves
       /\ calls' = [calls EXCEPT ![c] = [pc |-> "loaded", op |-> "save",
                                         ids |-> {}, sessions |-> l.ret,
                                         session |-> NewSession(nextId, nextId)]]
       /\ nextId' = nextId + 1
       /\ SetStore(l.st)
       /\ UNCHANGED <<recVars, analysisVars, committed, removed, lastOp, lastLoad, lastRead, threw,
                      lastFaults, lastSettings>>

\* deleteSession(id) / deleteSessions(ids) up to the end of loadAllSessions
ConcDeleteLoad(c) ==
    \E ids \in (SUBSET (1..MaxSaves)) \ {{}} :
        LET l == LoadAllSessions(Store, FALSE)
        IN /\ calls[c].pc = "free"
           /\ calls' = [calls EXCEPT ![c] = [pc |-> "loaded", op |-> "delete",
                                             ids |-> ids, sessions |-> l.ret,
                                             session |-> NewSession(0, 0)]]
           /\ removed' = removed \cup ids
           /\ SetStore(l.st)
           /\ UNCHANGED <<recVars, analysisVars, nextId, committed, lastOp, lastLoad, lastRead, threw,
                          lastFaults, lastSettings>>

\* the rest of saveSession: push, stringify, setItem
ConcSaveWrite(c) ==
    LET r == SaveWrite(Store, calls[c].sessions, calls[c].session, NoFaults)
    IN /\ calls[c].pc = "loaded"
       /\ calls[c].op = "save"
       /\ SetStore(r.st)
       /\ committed' = committed \cup {calls[c].session.id}
       /\ calls' = [calls EXCEPT ![c] = FreeCall]
       /\ lastOp' = "save"
       /\ UNCHANGED <<recVars, analysisVars, nextId, removed, lastLoad, lastRead, threw, lastFaults,
                      lastSettings>>

\* the rest of deleteSession / deleteSessions: filter, stringify, setItem
ConcDeleteWrite(c) ==
    LET filtered == SelectSeq(calls[c].sessions,
                              LAMBDA s : s.id \notin calls[c].ids)
        r == DeleteWrite(Store, filtered, NoFaults)
    IN /\ calls[c].pc = "loaded"
       /\ calls[c].op = "delete"
       /\ SetStore(r.st)
       /\ calls' = [calls EXCEPT ![c] = FreeCall]
       /\ lastOp' = "delete"
       /\ UNCHANGED <<recVars, analysisVars, nextId, committed, removed, lastLoad, lastRead, threw,
                      lastFaults, lastSettings>>

ConcNext ==
    \E c \in 1..MaxCalls :
        \/ ConcSaveLoad(c)
        \/ ConcDeleteLoad(c)
        \/ ConcSaveWrite(c)
        \/ ConcDeleteWrite(c)

SpecConc == ConcInit /\ [][ConcNext]_vars

----------------------------------------------------------------------------
(* SpecSettings: loadSettings and saveSettings over any stored settings     *)

StoredSettings ==
    {NoSettings, UnparsableSettings} \cup
    {StringifySettings(o) :
        o \in [samplingRate : SamplingRates \cup {MissingStr, "ultra"},
               recordingDuration : {MissingNum, 10, 30},
               theme : Themes \cup {MissingStr, "sepia"}]}

\* what the settings screen writes
ScreenSettings ==
    {[samplingRate |-> "high", recordingDuration |-> 30, theme |-> "light"],
     [samplingRate |-> "low", recordingDuration |-> 10, theme |-> "auto"]}

SettingsInit ==
    /\ \E d \in StoredSettings : AsyncStorage = [EmptyStorage EXCEPT !.settings = d]
    /\ memoryStorage = EmptyStorage
    /\ isAsyncStorageAvailable \in BOOLEAN
    /\ ObsInit
    /\ calls = NoCalls
    /\ RecOff

DoLoadSettings ==
    \E getFails \in BOOLEAN :
        LET l == LoadSettings(Store, getFails)
        IN /\ SetStore(l.st)
           /\ lastSettings' = [read |-> l.read, ret |-> l.ret]
           /\ lastOp' = "loadSettings"
           /\ UNCHANGED <<recVars, analysisVars, nextId, committed, removed, lastLoad, lastRead, threw,
                          lastFaults, calls>>

DoSaveSettings ==
    \E settings \in ScreenSettings, setFails \in BOOLEAN :
        /\ nextId <= MaxSettingsSaves
        /\ SetStore(SaveSettings(Store, settings, setFails))
        /\ nextId' = nextId + 1
        /\ lastOp' = "saveSettings"
        /\ UNCHANGED <<recVars, analysisVars, committed, removed, lastLoad, lastRead, threw,
                       lastFaults, lastSettings, calls>>

SettingsNext == DoLoadSettings \/ DoSaveSettings

SpecSettings == SettingsInit /\ [][SettingsNext]_vars

----------------------------------------------------------------------------
(* The record screen: hooks useSensors and useRecording, and the handlers   *)
(* of RecordScreen.  A reading's own timestamp and the state copies kept    *)
(* for display (accelerometerData, gyroscopeData, readings) are read by no  *)
(* code modelled here and are left out.                                     *)

\* what the two sensors deliver: integer triples with an integer norm
AccelSamples == {<<3, 4, 0>>}
GyroSamples == {<<0, 0, 0>>}

obsQuiet == <<committed, removed, lastLoad, lastRead, lastFaults, lastSettings,
              analysisVars>>

RecInit ==
    /\ AsyncStorage = EmptyStorage
    /\ memoryStorage = EmptyStorage
    /\ isAsyncStorageAvailable = TRUE
    /\ ObsInit
    /\ calls = NoCalls
    /\ RecIdle

\* useSensors, first effect: both isAvailableAsync promises resolve
AvailabilityResolved ==
    /\ ~sensorsChecked
    /\ sensorsChecked' = TRUE
    /\ isAvailable' = deviceSensors
    /\ lastOp' = "other"
    /\ lastReturn' = "none"
    /\ UNCHANGED <<storageVars, obsQuiet, nextId, threw, calls, deviceSensors,
                   enabledSeen, accelDataRef, gyroDataRef, readingsRef,
                   isRecording, countdown, progress, error, startTimeRef,
                   progressIntervalRef, timers, countdowns, nextStart, now,
                   abortedIds>>

\* useSensors, second effect: runs when `enabled` (isRecording) has changed.
\* Disabled: the cleanup removes the subscriptions and the collection
\* interval, the body empties the buffer.  Enabled: it subscribes.
SensorEffect ==
    /\ enabledSeen # isRecording
    /\ enabledSeen' = isRecording
    /\ readingsRef' = IF ~isRecording THEN <<>> ELSE readingsRef
    /\ lastOp' = "other"
    /\ lastReturn' = "none"
    /\ UNCHANGED <<storageVars, obsQuiet, nextId, threw, calls, deviceSensors,
                   sensorsChecked, isAvailable, accelDataRef, gyroDataRef,
                   isRecording, countdown, progress, error, startTimeRef,
                   progressIntervalRef, timers, countdowns, nextStart, now,
                   abortedIds>>

\* Accelerometer.addListener callback, called with data
AccelDelivers(data) ==
    /\ enabledSeen
    /\ accelDataRef' = Some(data)
    /\ lastOp' = "other"
    /\ lastReturn' = "none"
    /\ UNCHANGED <<storageVars, obsQuiet, nextId, threw, calls,
                   deviceSensors, sensorsChecked, isAvailable, enabledSeen,
                   gyroDataRef, readingsRef, recordingVarsButReturn>>

AccelListener == \E data \in AccelSamples : AccelDelivers(data)

\* Gyroscope.addListener callback, called with data
GyroDelivers(data) ==
    /\ enabledSeen
    /\ gyroDataRef' = Some(data)
    /\ lastOp' = "other"
    /\ lastReturn' = "none"
    /\ UNCHANGED <<storageVars, obsQuiet, nextId, threw, calls,
                   deviceSensors, sensorsChecked, isAvailable, enabledSeen,
                   accelDataRef, readingsRef, recordingVarsButReturn>>

GyroListener == \E data \in GyroSamples : GyroDelivers(data)

\* a collection tick that waits for the accelerometer only
AccelDeliveredOnly == accelDataRef # Null

\* the collectionInterval callback: accelDataRef.current && gyroDataRef.current
BothDelivered == accelDataRef # Null /\ gyroDataRef # Null

\* { ...ref.current }: the fields of the object, none for null
Spread(ref) == IF ref = Null THEN <<>> ELSE Get(ref)

\* the collectionInterval callback; op: what the step is observed as
Collect(op) ==
    /\ enabledSeen
    /\ Len(readingsRef) < MaxReadings
    /\ readingsRef' =
          IF BothDelivered
          THEN Append(readingsRef, [accelerometer |-> Spread(accelDataRef),
                                    gyroscope |-> Spread(gyroDataRef)])
          ELSE readingsRef
    /\ lastOp' = op
    /\ lastReturn' = "none"
    /\ UNCHANGED <<storageVars, obsQuiet, nextId, threw, calls, deviceSensors,
                   sensorsChecked, isAvailable, enabledSeen, accelDataRef,
                   gyroDataRef, recordingVarsButReturn>>

CollectionTick == Collect("other")

\* Date.now() moves on
ClockTick ==
    /\ now < MaxTime
    /\ now' = now + 1
    /\ lastOp' = "other"
    /\ lastReturn' = "none"
    /\ UNCHANGED <<storageVars, obsQuiet, nextId, threw, calls, sensorVars,
                   isRecording, countdown, progress, error, startTimeRef,
                   progressIntervalRef, timers, countdowns, nextStart,
                   abortedIds>>

\* a stopRecording that takes an empty buffer for data
NoDataCollectedNever(allReadings) == FALSE

\* stopRecording: the test that refuses an empty buffer
NoDataCollected(allReadings) == Len(allReadings) = 0

\* a stopRecording that builds its session from none of the readings
AssembleNoReadings(allReadings, id, timestamp, duration) ==
    [id |-> id, timestamp |-> timestamp, absent |-> {}, nul |-> FALSE,
     body |-> [EmptyBody EXCEPT !.duration = duration]]

\* stopRecording: the session built from the buffered readings
AssembleSession(allReadings, id, timestamp, duration) ==
    LET n == Len(allReadings)
        accelerometer ==
            [x |-> [i \in 1..n |-> allReadings[i].accelerometer[1]],
             y |-> [i \in 1..n |-> allReadings[i].accelerometer[2]],
             z |-> [i \in 1..n |-> allReadings[i].accelerometer[3]]]
        gyroscope ==
            [x |-> [i \in 1..n |-> allReadings[i].gyroscope[1]],
             y |-> [i \in 1..n |-> allReadings[i].gyroscope[2]],
             z |-> [i \in 1..n |-> allReadings[i].gyroscope[3]]]
        magnitude == CalculateMagnitudeArray(accelerometer)
    IN [id |-> id, timestamp |-> timestamp, absent |-> {}, nul |-> FALSE,
        body |-> [duration |-> duration, accelerometer |-> accelerometer,
                  gyroscope |-> gyroscope, magnitude |-> magnitude,
                  stats |-> CalculateStats(magnitude)]]

\* clearInterval(progressIntervalRef.current)
ClearProgressInterval ==
    IF progressIntervalRef = Null THEN timers
    ELSE {t \in timers : t.id # Get(progressIntervalRef)}

\* the recording is stopped before its duration has elapsed
BeforeDuration == startTimeRef # Null /\ now - Get(startTimeRef) < Duration

\* stopRecording up to its await of saveSession; by: who calls it
StopRecording(by) ==
    LET allReadings == readingsRef
        session == AssembleSession(allReadings, nextId,
                       IF startTimeRef # Null THEN Get(startTimeRef) ELSE now,
                       Duration)
    IN /\ isRecording' = FALSE
       /\ progress' = 0
       /\ timers' = ClearProgressInterval
       /\ progressIntervalRef' = Null
       /\ lastOp' = by
       /\ IF NoDataCollected(allReadings)
          THEN /\ error' = "No data collected"
               /\ lastReturn' = "null"
               /\ UNCHANGED <<calls, nextId, abortedIds>>
          ELSE /\ FreeSlots # {}
               /\ nextId <= MaxSessions
               /\ LET c == CHOOSE k \in FreeSlots : \A j \in FreeSlots : k <= j
                  IN calls' = [calls EXCEPT ![c] =
                                 [pc |-> "saving", op |-> "save", ids |-> {},
                                  sessions |-> <<>>, session |-> session]]
               /\ nextId' = nextId + 1
               /\ lastReturn' = "pending"
               /\ abortedIds' = IF by = "handleStop" /\ BeforeDuration
                                THEN abortedIds \cup {nextId} ELSE abortedIds
               /\ UNCHANGED error
       /\ UNCHANGED <<storageVars, obsQuiet, threw, sensorVars, countdown,
                      startTimeRef, countdowns, nextStart, now>>

\* saveSession of a stopRecording call: its loadAllSessions has returned
StopSaveLoaded(c) ==
    \E getFails \in BOOLEAN :
        LET l == LoadAllSessions(Store, getFails)
        IN /\ calls[c].pc = "saving"
           /\ calls' = [calls EXCEPT ![c].pc = "loaded", ![c].sessions = l.ret]
           /\ SetStore(l.st)
           /\ lastOp' = "other"
           /\ lastReturn' = "none"
           /\ UNCHANGED <<obsQuiet, nextId, threw, sensorVars,
                          recordingVarsButReturn>>

\* saveSession has settled; the rest of stopRecording runs
StopSaveSettled(c) ==
    \E f \in Faults :
        LET r == SaveWrite(Store, calls[c].sessions, calls[c].session, f)
        IN /\ calls[c].pc = "loaded"
           /\ calls[c].op = "save"
           /\ ~f.get
           /\ SetStore(r.st)
           /\ calls' = [calls EXCEPT ![c] = FreeCall]
           /\ threw' = r.threw
           /\ IF ~r.threw
              THEN /\ readingsRef' = <<>>
                   /\ startTimeRef' = Null
                   /\ UNCHANGED committed
                   /\ lastOp' = "stopSaved"
                   /\ lastReturn' = "session"
                   /\ UNCHANGED error
              ELSE /\ error' = "Failed to save session"
                   /\ lastOp' = "stopFailed"
                   /\ lastReturn' = "null"
                   /\ UNCHANGED <<readingsRef, startTimeRef, committed>>
           /\ UNCHANGED <<removed, lastLoad, lastRead, lastFaults,
                          lastSettings, analysisVars, nextId, deviceSensors, sensorsChecked, isAvailable,
                          enabledSeen, accelDataRef, gyroDataRef, isRecording,
                          countdown, progress, progressIntervalRef, timers,
                          countdowns, nextStart, now, abortedIds>>

\* a startRecording without the availability check
SensorsUnavailableNever == FALSE

\* startRecording: the availability check
SensorsUnavailable == ~isAvailable

\* startRecording up to its await of the countdown
StartRecording ==
    /\ lastOp' = "startRecording"
    /\ lastReturn' = "none"
    /\ IF SensorsUnavailable
       THEN /\ error' = "Sensors are not available on this device"
            /\ UNCHANGED <<readingsRef, countdown, countdowns, nextStart>>
       ELSE /\ nextStart <= MaxStarts
            /\ error' = "none"
            /\ readingsRef' = <<>>
            /\ countdown' = Some(3)
            /\ countdowns' = countdowns \cup {[id |-> nextStart, count |-> 3]}
            /\ nextStart' = nextStart + 1
    /\ UNCHANGED <<storageVars, obsQuiet, nextId, threw, calls, deviceSensors,
                   sensorsChecked, isAvailable, enabledSeen, accelDataRef,
                   gyroDataRef, isRecording, progress, startTimeRef,
                   progressIntervalRef, timers, now, abortedIds>>

\* the countdownInterval callback of one startRecording call; at zero the
\* promise resolves and the call goes on to start the recording
CountdownTick(cd) ==
    LET count == cd.count - 1
    IN /\ cd \in countdowns
       /\ lastOp' = "other"
       /\ lastReturn' = "none"
       /\ IF count <= 0
          THEN /\ countdowns' = countdowns \ {cd}
               /\ countdown' = Null
               /\ isRecording' = TRUE
               /\ startTimeRef' = Some(now)
               /\ timers' = ClearProgressInterval
                               \cup {[id |-> cd.id, startTime |-> now]}
               /\ progressIntervalRef' = Some(cd.id)
          ELSE /\ countdowns' = (countdowns \ {cd})
                                   \cup {[id |-> cd.id, count |-> count]}
               /\ countdown' = Some(count)
               /\ UNCHANGED <<isRecording, startTimeRef, timers,
                              progressIntervalRef>>
       /\ UNCHANGED <<storageVars, obsQuiet, nextId, threw, calls, sensorVars,
                      progress, error, nextStart, now, abortedIds>>

\* a progress interval callback that never finds the duration elapsed
ProgressTickNeverDue(t) ==
    LET elapsed == now - t.startTime
    IN /\ t \in timers
       /\ progress' = Min2(100, (elapsed * 100) \div Duration)
       /\ lastOp' = "other"
       /\ lastReturn' = "none"
       /\ UNCHANGED <<storageVars, obsQuiet, nextId, threw, calls,
                      sensorVars, isRecording, countdown, error,
                      startTimeRef, progressIntervalRef, timers,
                      countdowns, nextStart, now, abortedIds>>

\* the progress interval callback of one startRecording call
ProgressTick(t) ==
    LET elapsed == now - t.startTime
    IN /\ t \in timers
       /\ IF elapsed >= Duration
          THEN StopRecording("timerStop")
          ELSE /\ progress' = Min2(100, (elapsed * 100) \div Duration)
               /\ lastOp' = "other"
               /\ lastReturn' = "none"
               /\ UNCHANGED <<storageVars, obsQuiet, nextId, threw, calls,
                              sensorVars, isRecording, countdown, error,
                              startTimeRef, progressIntervalRef, timers,
                              countdowns, nextStart, now, abortedIds>>

\* RecordScreen: the record button shows Start and is enabled
HandleStart == ~isRecording /\ isAvailable /\ StartRecording

\* RecordScreen: the record button shows Stop and is enabled
HandleStop == isRecording /\ isAvailable /\ StopRecording("handleStop")

\* startRecording called on the hook, without the checks of the screen
CallStart == StartRecording

HooksNext ==
    \/ AvailabilityResolved
    \/ SensorEffect
    \/ AccelListener
    \/ GyroListener
    \/ CollectionTick
    \/ ClockTick
    \/ \E cd \in countdowns : CountdownTick(cd)
    \/ \E t \in timers : ProgressTick(t)
    \/ \E c \in 1..MaxCalls : StopSaveLoaded(c)
    \/ \E c \in 1..MaxCalls : StopSaveSettled(c)

Next == HooksNext \/ HandleStart \/ HandleStop

Spec == RecInit /\ [][Next]_vars

\* the record button pressed for a start no more than MaxTimedStarts times
TimedStart == nextStart <= MaxTimedStarts /\ HandleStart

TimersNext == HooksNext \/ TimedStart \/ HandleStop

\* the record screen with the timers, the clock and the awaited storage
\* calls going on: an interval that is set keeps firing, Date.now() moves
\* on, a call of saveSession settles
SpecTimers ==
    /\ RecInit
    /\ [][TimersNext]_vars
    /\ WF_vars(ClockTick)
    /\ WF_vars(\E t \in timers : ProgressTick(t))
    /\ WF_vars(\E c \in 1..MaxCalls : StopSaveLoaded(c))
    /\ WF_vars(\E c \in 1..MaxCalls : StopSaveSettled(c))

\* stopRecording called on the hook, whatever the record button shows
CallStop == StopRecording("stopRecording")

StopsNext == HooksNext \/ TimedStart \/ CallStop

\* the hook with its stopRecording called at any time
SpecStops == RecInit /\ [][StopsNext]_vars

\* what both sensors deliver while the k-th recording is the latest one
\* started: a value that tells the recordings apart
RecordingSample(k) == <<0, 0, k>>

\* the number of the recording started last
LatestStart == nextStart - 1

RecordingAccel == AccelDelivers(RecordingSample(LatestStart))
RecordingGyro == GyroDelivers(RecordingSample(LatestStart))

\* the record button pressed for a start once the effects of the last
\* render have run
PromptStart == enabledSeen = isRecording /\ HandleStart

RecordingsNext ==
    \/ AvailabilityResolved
    \/ SensorEffect
    \/ RecordingAccel
    \/ RecordingGyro
    \/ CollectionTick
    \/ ClockTick
    \/ \E cd \in countdowns : CountdownTick(cd)
    \/ \E t \in timers : ProgressTick(t)
    \/ \E c \in 1..MaxCalls : StopSaveLoaded(c)
    \/ \E c \in 1..MaxCalls : StopSaveSettled(c)
    \/ PromptStart
    \/ HandleStop

\* the record screen used for one recording after the other, the sensors
\* delivering another value in each
SpecRecordings == RecInit /\ [][RecordingsNext]_vars

HookNext == HooksNext \/ CallStart \/ HandleStop

SpecHook == RecInit /\ [][HookNext]_vars

----------------------------------------------------------------------------
(* SpecSensors: useSensors by itself, its `enabled` argument set by the    *)
(* component that renders it                                                *)

\* two values from each sensor, so that the latest differs from the first
SensorAccelSamples == {<<3, 4, 0>>, <<0, 0, 5>>}
SensorGyroSamples == {<<0, 0, 0>>, <<1, 0, 0>>}

\* a render with the other value of `enabled`
SetEnabled ==
    /\ isRecording' = ~isRecording
    /\ lastOp' = "other"
    /\ lastReturn' = "none"
    /\ UNCHANGED <<storageVars, obsQuiet, nextId, threw, calls, sensorVars,
                   countdown, progress, error, startTimeRef,
                   progressIntervalRef, timers, countdowns, nextStart, now,
                   abortedIds>>

SensorAccel == \E data \in SensorAccelSamples : AccelDelivers(data)
SensorGyro == \E data \in SensorGyroSamples : GyroDelivers(data)
SensorTick == Collect("tick")

SensorsNext ==
    \/ AvailabilityResolved
    \/ SetEnabled
    \/ SensorEffect
    \/ SensorAccel
    \/ SensorGyro
    \/ SensorTick

SpecSensors == RecInit /\ [][SensorsNext]_vars

----------------------------------------------------------------------------
(* SpecAnalysis: generateTrendAnalysis over the histories the insights      *)
(* screen can load                                                          *)

\* timestamps in days: one before the recency window, two inside it
AnalysisTimestamps == {1, 5, 8}
AnalysisVariabilities == {0, 10, 20}
AnalysisMagnitudes == {<<5, 5, 5, 5, 5, 29>>}

AnalysisSessions ==
    [timestamp : AnalysisTimestamps, variability : AnalysisVariabilities,
     magnitude : AnalysisMagnitudes, caffeine : BOOLEAN, stress : {FALSE}]

AnalysisInit ==
    /\ AsyncStorage = EmptyStorage
    /\ memoryStorage = EmptyStorage
    /\ isAsyncStorageAvailable = TRUE
    /\ ObsInit
    /\ calls = NoCalls
    /\ HooksIdle
    /\ deviceSensors = FALSE
    /\ loaded \in SeqsUpTo(AnalysisSessions, MaxHistory)
    /\ analysis = NoReport
    /\ args = <<>>
    /\ result = <<>>

\* the call generateTrendAnalysis(loaded), made once and once again
Analyse ==
    /\ lastOp \in {"none", "analyse"}
    /\ analysis' = GenerateTrendAnalysis(loaded, Today)
    /\ loaded' = SessionsAfterAnalysis(loaded, Today)
    /\ lastOp' = IF lastOp = "none" THEN "analyse" ELSE "analyseAgain"
    /\ UNCHANGED <<storageVars, nextId, committed, removed, lastLoad, lastRead,
                   threw, lastFaults, lastSettings, calls, recVars,
                   args, result>>

AnalysisNext == Analyse

SpecAnalysis == AnalysisInit /\ [][AnalysisNext]_vars

----------------------------------------------------------------------------
(* The analysis functions called by themselves, each on a grid of          *)
(* arguments: args holds the arguments, result what the call returned       *)

\* nothing but the call is going on
PureIdle ==
    /\ AsyncStorage = EmptyStorage
    /\ memoryStorage = EmptyStorage
    /\ isAsyncStorageAvailable = TRUE
    /\ ObsInit
    /\ calls = NoCalls
    /\ HooksIdle
    /\ deviceSensors = FALSE
    /\ loaded = <<>>
    /\ analysis = NoReport
    /\ result = <<>>

\* what a call of a pure function leaves alone
allButResult == <<storageVars, nextId, committed, removed, lastLoad, lastRead,
                  threw, lastFaults, lastSettings, calls, recVars, loaded,
                  analysis, args>>

Trends == {"stable", "increasing", "decreasing"}

\* baselines 0, 10 and 10.5, as quotients
ClassifyBaselines ==
    {[num |-> 0, den |-> 1], [num |-> 10, den |-> 1], [num |-> 21, den |-> 2]}

ClassifyArgs ==
    [currentVariability : 0..MaxVariability,
     baselineVariability : ClassifyBaselines, trend : Trends]

ClassifyInit == PureIdle /\ args \in ClassifyArgs

\* the call classifyStability(args)
Classify ==
    /\ lastOp = "none"
    /\ result' = ClassifyStability(args.currentVariability,
                                   args.baselineVariability, args.trend)
    /\ lastOp' = "classifyStability"
    /\ UNCHANGED allButResult

ClassifyNext == Classify

SpecClassify == ClassifyInit /\ [][ClassifyNext]_vars

\* sessions that differ in their variability only
BaselineSessions ==
    [timestamp : {8}, variability : 1..MaxBaseline, magnitude : {<<>>},
     caffeine : {FALSE}, stress : {FALSE}]

BaselineInit == PureIdle /\ args \in SeqsUpTo(BaselineSessions, MaxBaseline)

\* the call calculateBaseline(args)
Baseline ==
    /\ lastOp = "none"
    /\ result' = CalculateBaseline(args)
    /\ lastOp' = "calculateBaseline"
    /\ UNCHANGED allButResult

BaselineNext == Baseline

SpecBaseline == BaselineInit /\ [][BaselineNext]_vars

\* one timestamp before the recency window and three inside it
TrendTimestamps == {1, 5, 6, 8}

TrendVariabilities == {0, 10, 12}

TrendSessions ==
    [timestamp : TrendTimestamps, variability : TrendVariabilities,
     magnitude : {<<>>}, caffeine : {FALSE}, stress : {FALSE}]

TrendInit == PureIdle /\ args \in SeqsUpTo(TrendSessions, MaxTrend)

\* the call detectTrend(args), days left at its default
Trend ==
    /\ lastOp = "none"
    /\ result' = DetectTrend(args, RecencyDays, Today)
    /\ lastOp' = "detectTrend"
    /\ UNCHANGED allButResult

TrendNext == Trend

SpecTrend == TrendInit /\ [][TrendNext]_vars

(* SpecCorrelation: generateTrendAnalysis over histories of sessions with   *)
(* caffeine, sessions with stress and sessions with neither                  *)

CorrelationVariabilities == {0, 10, 11, 15}

Repeat(session, n) == [i \in 1..n |-> session]

ContextSession(v, caffeine, stress) ==
    [timestamp |-> 8, variability |-> v, magnitude |-> <<>>,
     caffeine |-> caffeine, stress |-> stress]

CorrelationHistories ==
    {Repeat(ContextSession(v[1], TRUE, FALSE), n[1])
       \o Repeat(ContextSession(v[2], FALSE, TRUE), n[2])
       \o Repeat(ContextSession(v[3], FALSE, FALSE), n[3]) :
         v \in [1..3 -> CorrelationVariabilities], n \in [1..3 -> 0..MaxGroup]}

CorrelationInit ==
    /\ AsyncStorage = EmptyStorage
    /\ memoryStorage = EmptyStorage
    /\ isAsyncStorageAvailable = TRUE
    /\ ObsInit
    /\ calls = NoCalls
    /\ HooksIdle
    /\ deviceSensors = FALSE
    /\ loaded \in CorrelationHistories
    /\ analysis = NoReport
    /\ args = <<>>
    /\ result = <<>>

SpecCorrelation == CorrelationInit /\ [][AnalysisNext]_vars

(* SpecAnomalies: generateTrendAnalysis over histories that differ in the   *)
(* magnitude series of their sessions                                        *)

\* no sample; no spread; 1 outlier in 6; 1 outlier in 10; 2 outliers in 12
AnomalyMagnitudes ==
    {<<>>,
     <<5, 5, 5>>,
     <<5, 5, 5, 5, 5, 29>>,
     <<5, 5, 5, 5, 5, 5, 5, 5, 5, 29>>,
     <<5, 5, 29, 5, 5, 5, 5, 5, 5, 29, 5, 5>>}

AnomalySessions ==
    [timestamp : {5, 8}, variability : {10}, magnitude : AnomalyMagnitudes,
     caffeine : {FALSE}, stress : {FALSE}]

AnomaliesInit ==
    /\ AsyncStorage = EmptyStorage
    /\ memoryStorage = EmptyStorage
    /\ isAsyncStorageAvailable = TRUE
    /\ ObsInit
    /\ calls = NoCalls
    /\ HooksIdle
    /\ deviceSensors = FALSE
    /\ loaded \in SeqsUpTo(AnomalySessions, MaxAnomalySessions)
    /\ analysis = NoReport
    /\ args = <<>>
    /\ result = <<>>

SpecAnomalies == AnomaliesInit /\ [][AnalysisNext]_vars

\* values of a magnitude series
SeriesValues == {0, 5, 29}

Thresholds == {1, 2}

DetectArgs ==
    [magnitude : SeqsUpTo(SeriesValues, MaxSeries), threshold : Thresholds]

DetectInit == PureIdle /\ args \in DetectArgs

\* the call detectAnomalies(args)
Detect ==
    /\ lastOp = "none"
    /\ result' = DetectAnomalies(args.magnitude, args.threshold)
    /\ lastOp' = "detectAnomalies"
    /\ UNCHANGED allButResult

DetectNext == Detect

SpecDetect == DetectInit /\ [][DetectNext]_vars

SmoothArgs ==
    [data : SeqsUpTo(SeriesValues, MaxSeries), windowSize : 1..MaxWindow]

SmoothInit == PureIdle /\ args \in SmoothArgs

\* the call smoothData(args)
Smooth ==
    /\ lastOp = "none"
    /\ result' = SmoothData(args.data, args.windowSize)
    /\ lastOp' = "smoothData"
    /\ UNCHANGED allButResult

SmoothNext == Smooth

SpecSmooth == SmoothInit /\ [][SmoothNext]_vars

(* SpecAssemble: calculateMagnitudeArray on axes of any lengths, and the    *)
(* session assembly of stopRecording on a buffer of readings                *)

\* SensorData whose axes need not be equally long
AxisData ==
    [x : SeqsUpTo({0, 3}, MaxAxis), y : SeqsUpTo({4}, MaxAxis),
     z : SeqsUpTo({0}, MaxAxis)]

\* the buffers getReadings() can return to a stopRecording that goes on
Buffers ==
    SeqsUpTo([accelerometer : SensorAccelSamples, gyroscope : SensorGyroSamples],
             MaxAxis) \ {<<>>}

AssembleInit ==
    /\ PureIdle
    /\ args \in {[data |-> d] : d \in AxisData}
                  \cup {[allReadings |-> b] : b \in Buffers}

\* the call calculateMagnitudeArray(args.data)
MagnitudeArray ==
    /\ lastOp = "none"
    /\ DOMAIN args = {"data"}
    /\ result' = CalculateMagnitudeArray(args.data)
    /\ lastOp' = "calculateMagnitudeArray"
    /\ UNCHANGED allButResult

\* stopRecording from its mapping of allReadings to the session literal
Assemble ==
    /\ lastOp = "none"
    /\ DOMAIN args = {"allReadings"}
    /\ result' = AssembleSession(args.allReadings, 1, 0, Duration)
    /\ lastOp' = "assemble"
    /\ UNCHANGED allButResult

AssembleNext == MagnitudeArray \/ Assemble

SpecAssemble == AssembleInit /\ [][AssembleNext]_vars

----------------------------------------------------------------------------
(* exportSessionsAsCSV.  A text is a sequence of characters; a field that   *)
(* holds no comma and no line break (an id, an ISO date, a number) is one   *)
(* character of its own.                                                    *)

RECURSIVE JoinWith(_, _)
\* texts.join(separator)
JoinWith(texts, separator) ==
    IF texts = <<>> THEN <<>>
    ELSE IF Len(texts) = 1 THEN texts[1]
    ELSE texts[1] \o <<separator>> \o JoinWith(Tail(texts), separator)

Headers ==
    <<<<"ID">>, <<"Timestamp">>, <<"Duration">>, <<"Mean Amplitude">>,
      <<"Variability">>, <<"Peak Amplitude">>, <<"Caffeine">>,
      <<"Sleep Deprived">>, <<"Stress">>, <<"Notes">>>>

\* session.context?.flag ? 'Yes' : 'No'
YesNo(context, flag) ==
    IF context # Null /\ Get(context)[flag] = "true" THEN <<"Yes">> ELSE <<"No">>

\* session.context?.notes || ''
NotesField(context) ==
    IF context = Null THEN <<>>
    ELSE IF Get(context).notes = Null THEN <<>>
    ELSE Get(Get(context).notes)

\* the row of one session
CsvRow(session) ==
    JoinWith(<<session.id, session.timestamp, session.duration,
               session.meanAmplitude, session.variability,
               session.peakAmplitude,
               YesNo(session.context, "caffeine"),
               YesNo(session.context, "sleepDeprived"),
               YesNo(session.context, "stress"),
               NotesField(session.context)>>, ",")

\* exportSessionsAsCSV, sessions being what loadAllSessions returned
ExportSessionsAsCSV(sessions) ==
    JoinWith(<<JoinWith(Headers, ",")>>
               \o [i \in 1..Len(sessions) |-> CsvRow(sessions[i])], "\n")

\* what the notes input can hold: nothing, plain text, text with a comma,
\* text of two lines
NotesTexts == {<<>>, <<"a">>, <<"a", ",", "b">>, <<"a", "\n", "b">>}

\* RecordingContext: every field optional
Contexts ==
    [caffeine : {"true", "false", "unset"}, sleepDeprived : {"true", "unset"},
     stress : {"false", "unset"},
     notes : {Null} \cup {Some(t) : t \in NotesTexts}]

\* the fields of a session the export reads, the numbers as printed
ExportedSessions ==
    [id : {<<"session_1">>}, timestamp : {<<"1970-01-01T00:00:00.000Z">>},
     duration : {<<"10">>}, meanAmplitude : {<<"0.0000">>},
     variability : {<<"0.0000">>}, peakAmplitude : {<<"0.0000">>},
     context : {Null} \cup {Some(c) : c \in Contexts}]

ExportInit == PureIdle /\ args \in SeqsUpTo(ExportedSessions, MaxExport)

\* exportSessionsAsCSV() with args the loaded history
Export ==
    /\ lastOp = "none"
    /\ result' = ExportSessionsAsCSV(args)
    /\ lastOp' = "exportSessionsAsCSV"
    /\ UNCHANGED allButResult

ExportNext == Export

SpecExport == ExportInit /\ [][ExportNext]_vars

----------------------------------------------------------------------------
(* SpecDelete: deleteSession and deleteSessions over a persisted history,   *)
(* each call with its faults.  args holds the call: the ids, the faults and *)
(* the history before it; result what deleteSessions([id]) makes of the     *)
(* same store.  A call and one call after it are followed.                  *)

\* what a loadAllSessions without a fault returns
History(st) == LoadAllSessions(st, FALSE).ret

\* the histories of complete sessions with ids of 1..MaxDeleteIds, in any
\* order
DeleteHistories ==
    {h \in SeqsUpTo({NewSession(i, i) : i \in 1..MaxDeleteIds}, MaxDeleteIds) :
        \A i, j \in 1..Len(h) : h[i] = h[j] => i = j}

DeleteInit ==
    /\ \E h \in DeleteHistories :
         AsyncStorage = [EmptyStorage EXCEPT !.sessions = Stringify(h)]
    /\ memoryStorage = EmptyStorage
    /\ isAsyncStorageAvailable \in BOOLEAN
    /\ ObsInit
    /\ calls = NoCalls
    /\ HooksIdle
    /\ deviceSensors = FALSE
    /\ loaded = <<>>
    /\ analysis = NoReport
    /\ args = <<>>
    /\ result = <<>>

deleteQuiet == <<nextId, committed, removed, lastLoad, lastRead, lastFaults,
                 lastSettings, calls, recVars, loaded, analysis>>

FirstDeletes == {"delete", "deleteMany"}

\* deleteSession(id)
DeleteOne ==
    \E id \in 1..MaxDeleteIds, f \in DeleteFaults :
        LET r == DeleteSession(Store, id, f)
        IN /\ lastOp \in {"none"} \cup FirstDeletes
           /\ SetStore(r.st)
           /\ threw' = r.threw
           /\ args' = [ids |-> {id}, faults |-> f, before |-> History(Store)]
           /\ result' = DeleteSessions(Store, {id}, f)
           /\ lastOp' = IF lastOp = "none" THEN "delete" ELSE "deleteAgain"
           /\ UNCHANGED deleteQuiet

\* deleteSessions(ids)
DeleteMany ==
    \E ids \in SUBSET (1..MaxDeleteIds), f \in DeleteFaults :
        LET r == DeleteSessions(Store, ids, f)
        IN /\ lastOp \in {"none"} \cup FirstDeletes
           /\ SetStore(r.st)
           /\ threw' = r.threw
           /\ args' = [ids |-> ids, faults |-> f, before |-> History(Store)]
           /\ result' = r
           /\ lastOp' = IF lastOp = "none" THEN "deleteMany"
                        ELSE "deleteManyAgain"
           /\ UNCHANGED deleteQuiet

DeleteNext == DeleteOne \/ DeleteMany

SpecDelete == DeleteInit /\ [][DeleteNext]_vars

----------------------------------------------------------------------------
(* SpecScreen: the record screen's context and notes, and the context that *)
(* a stopRecording stores.  Each render hands { ...context, notes } to     *)
(* useRecording, whose stopRecording is made anew for it; the progress     *)
(* interval calls the stopRecording that the startRecording call closed    *)
(* over, the Stop button the one of the latest render.  The countdown is   *)
(* taken as one step with the start, every recording has readings and      *)
(* every saveSession succeeds.  args is the screen: its context, its       *)
(* notes, and the context held by the stopRecording the running interval   *)
(* calls; result is the context of the session stored last.                *)

\* useState<RecordingContext>({})
EmptyContext == [caffeine |-> "unset", sleepDeprived |-> "unset",
                 stress |-> "unset"]

\* the switches the user turns
Switches == {"caffeine", "stress"}

\* what the user types into the notes input
ScreenNotes == {<<>>, <<"a">>}

\* { ...context, notes }
HookContext(screen) ==
    [caffeine |-> screen.context.caffeine,
     sleepDeprived |-> screen.context.sleepDeprived,
     stress |-> screen.context.stress, notes |-> screen.notes]

\* what the steps of the record screen leave alone
screenQuiet == <<storageVars, nextId, committed, removed, lastLoad, lastRead,
                 threw, lastFaults, lastSettings, calls, sensorVars,
                 countdown, progress, error, progressIntervalRef, timers,
                 countdowns, nextStart, abortedIds, lastReturn, loaded,
                 analysis>>

ScreenInit ==
    /\ AsyncStorage = EmptyStorage
    /\ memoryStorage = EmptyStorage
    /\ isAsyncStorageAvailable = TRUE
    /\ ObsInit
    /\ calls = NoCalls
    /\ HooksIdle
    /\ loaded = <<>>
    /\ analysis = NoReport
    /\ args = [context |-> EmptyContext, notes |-> <<>>,
               stopRecording |-> Null]
    /\ result = Null

\* onValueChange of a switch: setContext({ ...context, [field]: value })
SetContext ==
    \E field \in Switches, value \in {"true", "false"} :
        /\ args' = [args EXCEPT !.context[field] = value]
        /\ lastOp' = "other"
        /\ UNCHANGED <<screenQuiet, isRecording, startTimeRef, now, result>>

\* onChangeText of the notes input: setNotes
SetNotes ==
    \E text \in ScreenNotes :
        /\ args' = [args EXCEPT !.notes = text]
        /\ lastOp' = "other"
        /\ UNCHANGED <<screenQuiet, isRecording, startTimeRef, now, result>>

\* handleStart: the startRecording of this render sets the progress interval,
\* whose callback keeps the stopRecording of this render
ScreenStart ==
    /\ ~isRecording
    /\ isAvailable
    /\ isRecording' = TRUE
    /\ startTimeRef' = Some(now)
    /\ args' = [args EXCEPT !.stopRecording = Some(HookContext(args))]
    /\ lastOp' = "startRecording"
    /\ UNCHANGED <<screenQuiet, now, result>>

\* the progress interval callback at elapsed >= duration: stopRecording()
\* of the closure, which builds the session with the context it holds
ScreenTimeout ==
    /\ isRecording
    /\ now - Get(startTimeRef) >= Duration
    /\ isRecording' = FALSE
    /\ startTimeRef' = Null
    /\ result' = Some(Get(args.stopRecording))
    /\ lastOp' = "timerStop"
    /\ UNCHANGED <<screenQuiet, now, args>>

\* handleStop: the stopRecording of the latest render builds the session
\* with the context of that render; then setNotes(''), setContext({})
ScreenStop ==
    /\ isRecording
    /\ isAvailable
    /\ isRecording' = FALSE
    /\ startTimeRef' = Null
    /\ result' = Some(HookContext(args))
    /\ args' = [args EXCEPT !.context = EmptyContext, !.notes = <<>>]
    /\ lastOp' = "handleStop"
    /\ UNCHANGED <<screenQuiet, now>>

ScreenNext ==
    \/ AvailabilityResolved
    \/ ClockTick
    \/ SetContext
    \/ SetNotes
    \/ ScreenStart
    \/ ScreenTimeout
    \/ ScreenStop

SpecScreen == ScreenInit /\ [][ScreenNext]_vars

----------------------------------------------------------------------------
(* Claims on the persistence layer *)

\* C5: the in-memory fallback is transparent: every session whose
\* saveSession returned without error and that was not deleted or cleared
\* since is in the result of every later loadAllSessions, and saveSession
\* throws only when the durable write and the fallback both fail.
C5_FallbackTransparent ==
    /\ (lastOp = "load" => committed \subseteq IdsOf(lastLoad))
    /\ (lastOp = "save" /\ threw => lastFaults.str)

\* C6: without faults, once every concurrent call has finished,
\* loadAllSessions returns every saved session no delete was given.
C6_SavedSurvivesInterleaving ==
    (\A c \in 1..MaxCalls : calls[c].pc = "free") =>
        (committed \ removed) \subseteq IdsOf(LoadAllSessions(Store, FALSE).ret)

\* an element that is a record with all five fields
HasAllFields(s) == ~s.nul /\ s.absent \cap FieldNames = {}

\* C7: loadAllSessions returns, in stored order, exactly the stored records
\* that have id, timestamp, accelerometer, gyroscope and magnitude; a record
\* is dropped if and only if one of the five is missing.
C7_LoadDropsExactlyIncomplete ==
    lastOp = "load" => lastLoad = SelectSeq(lastRead.arr, HasAllFields)

\* C8 as stated: a missing field or a field with an unrecognized value takes
\* its default; a recognized value is returned as stored.
C8_UnrecognizedTakesDefault ==
    LET r == lastSettings.read
        ret == lastSettings.ret
    IN lastOp = "loadSettings" /\ r.present /\ r.parses =>
        /\ ret.samplingRate = IF r.obj.samplingRate \in SamplingRates
                              THEN r.obj.samplingRate ELSE "medium"
        /\ ret.recordingDuration = IF r.obj.recordingDuration # MissingNum
                                   THEN r.obj.recordingDuration ELSE 10
        /\ ret.theme = IF r.obj.theme \in Themes THEN r.obj.theme ELSE "dark"

\* C8 amended: a field missing from the stored record takes its default
\* from {medium, 10, dark}; every stored field is returned as stored,
\* whether its value is recognized or not; with nothing stored, or a value
\* that does not parse, the defaults are returned.
C8_MissingTakesDefault ==
    LET r == lastSettings.read
        ret == lastSettings.ret
    IN lastOp = "loadSettings" =>
        IF ~r.present \/ ~r.parses
        THEN ret = [samplingRate |-> "medium", recordingDuration |-> 10,
                    theme |-> "dark"]
        ELSE /\ ret.samplingRate = IF r.obj.samplingRate = MissingStr
                                   THEN "medium" ELSE r.obj.samplingRate
             /\ ret.recordingDuration = IF r.obj.recordingDuration = MissingNum
                                        THEN 10 ELSE r.obj.recordingDuration
             /\ ret.theme = IF r.obj.theme = MissingStr
                            THEN "dark" ELSE r.obj.theme

\* a load of a record with a missing field, an unrecognized value and a
\* recognized value
C8_Witness ==
    /\ lastOp = "loadSettings"
    /\ lastSettings.read.present /\ lastSettings.read.parses
    /\ lastSettings.read.obj.theme = MissingStr
    /\ lastSettings.read.obj.samplingRate = "ultra"
    /\ lastSettings.read.obj.recordingDuration = 30
    /\ lastSettings.ret.theme = "dark"
    /\ lastSettings.ret.recordingDuration = 30

----------------------------------------------------------------------------
(* Claims on the trend analysis *)

\* C1: on every non-empty history, one with no session of the last 7 days
\* included, generateTrendAnalysis returns a report and raises no fault.
C1_AnalysisNeverFaults ==
    lastOp = "analyse" /\ Len(loaded) > 0 => ~analysis.fault

----------------------------------------------------------------------------
(* Claims on the recording workflow *)

\* the ids of the sessions in the durable store or in the in-memory map
PersistedIds ==
    IdsOf(AsyncStorage[SESSIONS_KEY].arr) \cup IdsOf(memoryStorage[SESSIONS_KEY].arr)

\* the stopRecording calls the record screen makes
Stops == {"handleStop", "timerStop"}

\* C2: a failed save sets the error and returns null, and no step empties
\* a non-empty reading buffer except the stop whose save succeeded (or the
\* next startRecording): not the sensor effect run by isRecording turning
\* false, while the save is awaited or after it failed.
C2_BufferKeptUntilSaved ==
    /\ [](lastOp = "stopFailed" =>
            error = "Failed to save session" /\ lastReturn = "null")
    /\ [][readingsRef # <<>> /\ readingsRef' = <<>> =>
            lastOp' \in {"stopSaved", "startRecording"}]_vars

\* C3: startRecording is non-reentrant: never two countdown timers, never
\* two progress timers, never a countdown shown while recording.
C3_StartNonReentrant ==
    /\ Cardinality(countdowns) <= 1
    /\ Cardinality(timers) <= 1
    /\ ~(countdown # Null /\ isRecording)

\* C4 as stated: no session built from the buffer of a recording the user
\* stopped before its duration had elapsed is persisted.
C4_AbortDiscardsBuffer == abortedIds \cap PersistedIds = {}

\* C4 amended: a user stop before the duration has elapsed ends the
\* recording and finalizes the buffer as a timeout does: a non-empty buffer
\* becomes a session of all its readings handed to saveSession, an empty
\* one hands over nothing; and a session whose save returned without error
\* lies in the durable store or in the in-memory map.
C4_AbortFinalizesBuffer ==
    [][/\ (lastOp' = "handleStop" /\ BeforeDuration =>
            /\ ~isRecording'
            /\ IF readingsRef = <<>> THEN calls' = calls /\ nextId' = nextId
               ELSE \E c \in 1..MaxCalls :
                      /\ calls[c].pc = "free"
                      /\ calls'[c].pc = "saving"
                      /\ calls'[c].session.id = nextId
                      /\ calls'[c].session.timestamp = Get(startTimeRef)
                      /\ calls'[c].session.body.accelerometer.x =
                           [i \in 1..Len(readingsRef) |->
                              readingsRef[i].accelerometer[1]]
                      /\ Len(calls'[c].session.body.magnitude) = Len(readingsRef))
       /\ (lastOp' = "stopSaved" =>
            \E c \in 1..MaxCalls :
              /\ calls[c].pc = "loaded"
              /\ calls'[c].pc = "free"
              /\ LET stored == AsyncStorage'[SESSIONS_KEY].arr
                                 \o memoryStorage'[SESSIONS_KEY].arr
                 IN \E i \in 1..Len(stored) : stored[i] = calls[c].session)
      ]_vars

\* the session of a user abort has been saved
C4_Witness ==
    /\ lastOp = "stopSaved"
    /\ \E id \in abortedIds : id \in PersistedIds

\* C9: a stopRecording that finds the buffer empty sets the error
\* 'No data collected', returns null, and calls no saveSession: the stored
\* history and the calls in flight are as before.
C9_EmptyStopSavesNothing ==
    [][lastOp' \in Stops /\ readingsRef = <<>> =>
         /\ error' = "No data collected"
         /\ lastReturn' = "null"
         /\ UNCHANGED <<AsyncStorage, memoryStorage, isAsyncStorageAvailable,
                        calls, nextId>>]_vars

\* a stop of a recording that collected nothing
C9_Witness ==
    /\ lastOp \in Stops
    /\ readingsRef = <<>>
    /\ error = "No data collected"
    /\ lastReturn = "null"
    /\ PersistedIds = {}

\* C10: while the sensors are unavailable a startRecording is refused: it
\* sets an error and starts no countdown, isRecording stays false, the
\* reading buffer is untouched, and no session is assembled or stored.
C10_UnavailableRefused ==
    /\ [](~isAvailable =>
            /\ ~isRecording
            /\ countdown = Null /\ countdowns = {} /\ timers = {}
            /\ nextId = 1 /\ PersistedIds = {}
            /\ \A c \in 1..MaxCalls : calls[c].pc = "free")
    /\ [][lastOp' = "startRecording" /\ ~isAvailable =>
            /\ error' = "Sensors are not available on this device"
            /\ UNCHANGED <<isRecording, countdown, countdowns, timers,
                           readingsRef, calls, nextId, AsyncStorage,
                           memoryStorage>>]_vars

\* a startRecording refused on a device whose sensor check came back negative
C10_Witness ==
    /\ lastOp = "startRecording"
    /\ sensorsChecked /\ ~isAvailable
    /\ error = "Sensors are not available on this device"
    /\ countdown = Null /\ ~isRecording

----------------------------------------------------------------------------
(* Claims on the sensor hook *)

\* C11: a collection tick appends a reading if and only if both sensors
\* have delivered a value; the reading holds the value each sensor
\* delivered last; a tick with a sensor still silent leaves the buffer as
\* it is.  A delivery replaces the value kept for its sensor and leaves
\* the buffer alone.
C11_TickAppendsIffBothDelivered ==
    [][/\ (lastOp' = "tick" =>
             IF accelDataRef # Null /\ gyroDataRef # Null
             THEN readingsRef' =
                    Append(readingsRef, [accelerometer |-> accelDataRef[1],
                                         gyroscope |-> gyroDataRef[1]])
             ELSE readingsRef' = readingsRef)
       /\ (accelDataRef' # accelDataRef =>
             /\ accelDataRef' \in {<<d>> : d \in SensorAccelSamples}
             /\ UNCHANGED <<gyroDataRef, readingsRef>>)
       /\ (gyroDataRef' # gyroDataRef =>
             /\ gyroDataRef' \in {<<d>> : d \in SensorGyroSamples}
             /\ UNCHANGED <<accelDataRef, readingsRef>>)
      ]_vars

\* a tick has appended the second value of each sensor
C11_Witness ==
    /\ lastOp = "tick"
    /\ Len(readingsRef) = 1
    /\ readingsRef[1] = [accelerometer |-> <<0, 0, 5>>, gyroscope |-> <<1, 0, 0>>]
    /\ accelDataRef = <<(<<0, 0, 5>>)>>

----------------------------------------------------------------------------
(* Claims on the analysis functions *)

\* C12: generateTrendAnalysis has no hidden state: a call leaves the list
\* it was given as it was, order and content, and a second call on the
\* same history at the same clock value returns the report of the first.
C12_AnalysisHasNoHiddenState ==
    [][/\ (lastOp' \in {"analyse", "analyseAgain"} => loaded' = loaded)
       /\ (lastOp' = "analyseAgain" => analysis' = analysis)]_vars

\* a second call on a history that is in neither timestamp order
C12_Witness ==
    /\ lastOp = "analyseAgain"
    /\ ~analysis.fault
    /\ Len(loaded) = 3
    /\ loaded[1].timestamp < loaded[2].timestamp
    /\ loaded[3].timestamp < loaded[2].timestamp
    /\ loaded[1].timestamp >= Today - RecencyDays
    /\ loaded[3].timestamp >= Today - RecencyDays

\* C13: classifyStability takes the first rule that matches, with
\* ratio = current / baseline and the baseline taken as 1 when it is 0:
\* ratio < 1.1 and trend stable: stable, 0.9; else ratio > 1.5 or trend
\* increasing: increasing, 0.8; else ratio > 1.2: variable, 0.7; else
\* irregular, 0.6.  The type is one of the four, the confidence in [0, 1]
\* (kept in tenths).
C13_ClassificationRules ==
    lastOp = "classifyStability" =>
        LET b == args.baselineVariability
            \* ratio = rn / rd, rd > 0
            rd == IF b.num = 0 THEN 1 ELSE b.num
            rn == IF b.num = 0 THEN args.currentVariability
                  ELSE args.currentVariability * b.den
            below11 == 10 * rn < 11 * rd
            above15 == 10 * rn > 15 * rd
            above12 == 10 * rn > 12 * rd
        IN /\ (below11 /\ args.trend = "stable" =>
                 result = [type |-> "stable", confidence |-> 9])
           /\ (~(below11 /\ args.trend = "stable")
                 /\ (above15 \/ args.trend = "increasing") =>
                 result = [type |-> "increasing", confidence |-> 8])
           /\ (~(below11 /\ args.trend = "stable")
                 /\ ~(above15 \/ args.trend = "increasing") /\ above12 =>
                 result = [type |-> "variable", confidence |-> 7])
           /\ (~(below11 /\ args.trend = "stable")
                 /\ ~(above15 \/ args.trend = "increasing") /\ ~above12 =>
                 result = [type |-> "irregular", confidence |-> 6])
           /\ result.type \in {"stable", "variable", "increasing", "irregular"}
           /\ result.confidence \in 0..10

\* a ratio between 1.2 and 1.5 on a decreasing trend: the third rule
C13_Witness ==
    /\ lastOp = "classifyStability"
    /\ args.trend = "decreasing"
    /\ args.currentVariability = 13
    /\ args.baselineVariability = [num |-> 10, den |-> 1]
    /\ result = [type |-> "variable", confidence |-> 7]

\* the k-th smallest of a sequence of numbers, by counting
KthSmallest(values, k) ==
    CHOOSE v \in {values[i] : i \in 1..Len(values)} :
        /\ Cardinality({i \in 1..Len(values) : values[i] < v}) < k
        /\ k <= Cardinality({i \in 1..Len(values) : values[i] <= v})

\* twice the median of a non-empty sequence of numbers
TwiceMedian(values) ==
    KthSmallest(values, (Len(values) + 1) \div 2)
        + KthSmallest(values, (Len(values) + 2) \div 2)

\* the position of the session the report is about: the newest of the
\* last 7 days, the first of them in the list when several are as new
LatestIndex(sessions, clock) ==
    CHOOSE i \in 1..Len(sessions) :
        /\ sessions[i].timestamp >= clock - RecencyDays
        /\ \A j \in 1..Len(sessions) :
             sessions[j].timestamp >= clock - RecencyDays =>
                \/ sessions[j].timestamp < sessions[i].timestamp
                \/ sessions[j].timestamp = sessions[i].timestamp /\ j >= i

\* C14: whenever a report is made of a history, its stabilityScore is
\* round(clamp(0, 100, 100 - (ratio - 1) * 50)), ratio = latest
\* variability / baseline with the baseline taken as 1 when 0, and so
\* lies in 0..100.
C14_StabilityScore ==
    lastOp = "analyse" /\ Len(loaded) > 0 /\ ~analysis.fault =>
        LET latest == loaded[LatestIndex(loaded, Today)]
            median2 == TwiceMedian([i \in 1..Len(loaded) |->
                                      loaded[i].variability])
            \* ratio = rn / rd
            rd == IF median2 = 0 THEN 1 ELSE median2
            rn == IF median2 = 0 THEN latest.variability
                  ELSE 2 * latest.variability
            \* 100 - (ratio - 1) * 50 = raw / rd
            raw == 150 * rd - 50 * rn
            clamped == IF raw < 0 THEN 0
                       ELSE IF raw > 100 * rd THEN 100 * rd ELSE raw
            score == analysis.stabilityScore
        IN /\ score \in 0..100
           \* score - 1/2 <= clamped / rd < score + 1/2
           /\ (2 * score - 1) * rd <= 2 * clamped
           /\ 2 * clamped < (2 * score + 1) * rd

\* latest variability 20 on a baseline of 15: 83.33 is reported as 83
C14_Witness ==
    /\ lastOp = "analyse"
    /\ loaded = <<[timestamp |-> 5, variability |-> 10,
                   magnitude |-> <<5, 5, 5, 5, 5, 29>>,
                   caffeine |-> FALSE, stress |-> FALSE],
                  [timestamp |-> 8, variability |-> 20,
                   magnitude |-> <<5, 5, 5, 5, 5, 29>>,
                   caffeine |-> FALSE, stress |-> FALSE]>>
    /\ analysis.stabilityScore = 83

\* the rearrangements of a list
Rearrangements(n) ==
    {p \in [1..n -> 1..n] : \A i, j \in 1..n : p[i] = p[j] => i = j}

Permuted(q, p) == [i \in 1..Len(q) |-> q[p[i]]]

\* C15: calculateBaseline returns the median of the variabilities: the
\* middle value of the ascending sort for an odd count, the mean of the
\* two middle values for an even count, whatever the order of the
\* sessions; 0 for no session.
C15_BaselineIsMedian ==
    lastOp = "calculateBaseline" =>
        IF Len(args) = 0 THEN result.num = 0
        ELSE /\ 2 * result.num =
                  result.den * TwiceMedian([i \in 1..Len(args) |->
                                              args[i].variability])
             /\ result.den > 0
             /\ \A p \in Rearrangements(Len(args)) :
                  CalculateBaseline(Permuted(args, p)) = result

\* variabilities 3, 1, 4, 2 have the baseline 2.5
C15_Witness ==
    /\ lastOp = "calculateBaseline"
    /\ [i \in 1..Len(args) |-> args[i].variability] = <<3, 1, 4, 2>>
    /\ result = [num |-> 5, den |-> 2]

\* the positions of the sessions of the last 7 days
RecentIndices(sessions, clock) ==
    {i \in 1..Len(sessions) : sessions[i].timestamp >= clock - RecencyDays}

\* C16: detectTrend returns 'stable' whenever the history has fewer than 3
\* sessions or fewer than 3 of them are of the last 7 days, whatever their
\* variabilities.
C16_FewSessionsStable ==
    (/\ lastOp = "detectTrend"
     /\ \/ Len(args) < 3
        \/ Cardinality(RecentIndices(args, Today)) < 3)
        => result = "stable"

\* four sessions, two of them recent and rising from 0 to 12
C16_Witness ==
    /\ lastOp = "detectTrend"
    /\ Len(args) = 4
    /\ Cardinality(RecentIndices(args, Today)) = 2
    /\ \E i, j \in RecentIndices(args, Today) :
         /\ args[i].timestamp < args[j].timestamp
         /\ args[i].variability = 0
         /\ args[j].variability = 12
    /\ result = "stable"

\* the recent sessions by ascending timestamp, sessions of one timestamp
\* in the order of the list
ByTime(sessions, clock) ==
    LET recent == RecentIndices(sessions, clock)
        Before(j, i) ==
            \/ sessions[j].timestamp < sessions[i].timestamp
            \/ sessions[j].timestamp = sessions[i].timestamp /\ j < i
        Rank(i) == Cardinality({j \in recent : Before(j, i)}) + 1
    IN [k \in 1..Cardinality(recent) |->
          sessions[CHOOSE i \in recent : Rank(i) = k]]

SumOver(q, from, to) ==
    LET RECURSIVE Upto(_)
        Upto(k) == IF k < from THEN 0 ELSE q[k].variability + Upto(k - 1)
    IN Upto(to)

\* the trend of a time-ordered list split at floor(n / 2): the relative
\* change of the second half's average against the first half's.  A first
\* average of 0 makes the change Infinity (second average above 0) or NaN.
HalvesTrend(q) ==
    LET n == Len(q)
        h == n \div 2
        firstSum == SumOver(q, 1, h)
        secondSum == SumOver(q, h + 1, n)
        \* secondAvg - firstAvg and firstAvg, both times h * (n - h)
        rise == secondSum * h - firstSum * (n - h)
        base == firstSum * (n - h)
    IN IF base = 0
       THEN IF secondSum > 0 THEN "increasing" ELSE "stable"
       ELSE IF 100 * rise > 15 * base THEN "increasing"
       ELSE IF 100 * rise < 0 - 15 * base THEN "decreasing"
       ELSE "stable"

DistinctRecentTimestamps(sessions, clock) ==
    \A i, j \in RecentIndices(sessions, clock) :
        sessions[i].timestamp = sessions[j].timestamp => i = j

\* C17 as stated: with at least 3 recent sessions the trend is that of the
\* time-ordered recent sessions split at floor(n / 2), and every
\* rearrangement of the list has the same trend.
C17_TrendOrderIndependent ==
    (/\ lastOp = "detectTrend"
     /\ Cardinality(RecentIndices(args, Today)) >= 3)
        => /\ result = HalvesTrend(ByTime(args, Today))
           /\ \A p \in Rearrangements(Len(args)) :
                DetectTrend(Permuted(args, p), RecencyDays, Today) = result

\* C17: with at least 3 recent sessions the trend is that of the recent
\* sessions by ascending timestamp (sessions of one timestamp in the order
\* of the list) split at floor(n / 2): increasing above +15%, decreasing
\* below -15%, else stable; every rearrangement of the list has the same
\* trend when the recent timestamps are pairwise distinct.
C17_TrendByHalves ==
    (/\ lastOp = "detectTrend"
     /\ Cardinality(RecentIndices(args, Today)) >= 3)
        => /\ result = HalvesTrend(ByTime(args, Today))
           /\ DistinctRecentTimestamps(args, Today) =>
                \A p \in Rearrangements(Len(args)) :
                    DetectTrend(Permuted(args, p), RecencyDays, Today) = result

\* three recent sessions listed out of time order; by time 10 | 10, 12:
\* the second half is the larger one and the change is +10%
C17_Witness ==
    /\ lastOp = "detectTrend"
    /\ [i \in 1..Len(args) |-> <<args[i].timestamp, args[i].variability>>]
         = <<<<8, 12>>, <<5, 10>>, <<6, 10>>>>
    /\ result = "stable"

Analysed == lastOp \in {"analyse", "analyseAgain"} /\ ~analysis.fault

Flags == {<<"caffeine", "Caffeine">>, <<"stress", "Stress">>}

\* the positions of the sessions whose flag has the value b
Group(sessions, flag, b) == {i \in 1..Len(sessions) : sessions[i][flag] = b}

GroupSum(sessions, group) ==
    LET RECURSIVE Upto(_)
        Upto(k) == IF k = 0 THEN 0
                   ELSE (IF k \in group THEN sessions[k].variability ELSE 0)
                          + Upto(k - 1)
    IN Upto(Len(sessions))

\* avg(flagged) - avg(unflagged) and avg(unflagged), both times the product
\* of the two group sizes
AvgDifference(sessions, flag) ==
    GroupSum(sessions, Group(sessions, flag, TRUE))
        * Cardinality(Group(sessions, flag, FALSE))
      - GroupSum(sessions, Group(sessions, flag, FALSE))
        * Cardinality(Group(sessions, flag, TRUE))

AvgUnflagged(sessions, flag) ==
    GroupSum(sessions, Group(sessions, flag, FALSE))
        * Cardinality(Group(sessions, flag, TRUE))

EntriesOf(name) ==
    {i \in 1..Len(analysis.correlations) :
        analysis.correlations[i].context = name}

\* C18: a report has no correlation entry for a flag when the flagged or
\* the unflagged group has 2 or fewer sessions or when the two groups'
\* average variabilities differ by at most 10% of the unflagged average;
\* it has at most one entry per flag and no entry of another context.
C18_CorrelationGuard ==
    Analysed =>
        /\ \A f \in Flags :
             /\ Cardinality(EntriesOf(f[2])) <= 1
             /\ (\/ Cardinality(Group(loaded, f[1], TRUE)) <= 2
                 \/ Cardinality(Group(loaded, f[1], FALSE)) <= 2
                 \/ /\ AvgUnflagged(loaded, f[1]) > 0
                    /\ 10 * Abs(AvgDifference(loaded, f[1]))
                         <= AvgUnflagged(loaded, f[1]))
                  => EntriesOf(f[2]) = {}
        /\ \A i \in 1..Len(analysis.correlations) :
             analysis.correlations[i].context \in {"Caffeine", "Stress"}

\* three caffeine sessions of variability 11 against three of 10 with
\* neither flag: exactly 10%, no entry
C18_Witness ==
    /\ Analysed
    /\ loaded = Repeat(ContextSession(11, TRUE, FALSE), 3)
                  \o Repeat(ContextSession(10, FALSE, FALSE), 3)
    /\ analysis.correlations = <<>>

\* C19: an emitted correlation entry has the impact 'negative' exactly
\* when the flagged group's average variability is the higher one and
\* 'positive' exactly when it is the lower one, never 'neutral', and its
\* description gives the absolute relative difference as a whole-number
\* percentage, with 'higher' or 'lower' accordingly.
C19_CorrelationEntry ==
    Analysed =>
        \A f \in Flags : \A i \in EntriesOf(f[2]) :
            LET entry == analysis.correlations[i]
                difference == AvgDifference(loaded, f[1])
                unflagged == AvgUnflagged(loaded, f[1])
            IN /\ entry.impact \in {"negative", "positive"}
               /\ entry.impact = "negative" <=> difference > 0
               /\ entry.impact = "positive" <=> difference < 0
               /\ entry.direction = (IF difference > 0 THEN "higher" ELSE "lower")
               \* the percentage is a number, the nearest whole one
               /\ entry.percent >= 0
               /\ 2 * Abs(100 * Abs(difference) - entry.percent * unflagged)
                    <= unflagged

\* the spec's scenario holds: flagged average 15 against unflagged average
\* 10 gives a negative entry of 50% higher variability
C19_ScenarioReached ==
    /\ Analysed
    /\ loaded = Repeat(ContextSession(15, TRUE, FALSE), 3)
                  \o Repeat(ContextSession(10, FALSE, FALSE), 3)
    /\ analysis.correlations =
         <<[context |-> "Caffeine", impact |-> "negative", percent |-> 50,
            direction |-> "higher"]>>

\* the number of values of a series more than 2 standard deviations from
\* its mean: (v - mean)^2 > 4 * variance, both sides times n^3
AnomalyCount(magnitude) ==
    LET n == Len(magnitude)
        RECURSIVE Total(_), Squares(_)
        Total(k) == IF k = 0 THEN 0 ELSE magnitude[k] + Total(k - 1)
        Deviation(k) == n * magnitude[k] - Total(n)
        Squares(k) == IF k = 0 THEN 0
                      ELSE Deviation(k) * Deviation(k) + Squares(k - 1)
    IN Cardinality({i \in 1..n :
                      n * Deviation(i) * Deviation(i) > 4 * Squares(n)})

\* C20: the anomalies list of a report holds exactly one description when
\* the latest session's magnitude series has more anomalous indices than
\* 10% of its length, and is empty otherwise (and for the empty history).
C20_OneAnomalyString ==
    Analysed =>
        IF loaded = <<>> THEN analysis.anomalies = <<>>
        ELSE LET magnitude == loaded[LatestIndex(loaded, Today)].magnitude
             IN IF 10 * AnomalyCount(magnitude) > Len(magnitude)
                THEN /\ Len(analysis.anomalies) = 1
                     /\ analysis.anomalies[1] =
                          "Unusual motion patterns detected in recent recording"
                ELSE analysis.anomalies = <<>>

\* two anomalous indices out of 12 in the latest session: one description
C20_Witness ==
    /\ Analysed
    /\ Len(loaded) = 2
    /\ loaded[1].timestamp = 5
    /\ loaded[1].magnitude = <<5, 5, 5, 5, 5, 5, 5, 5, 5, 29>>
    /\ loaded[2].timestamp = 8
    /\ AnomalyCount(loaded[2].magnitude) = 2
    /\ Len(analysis.anomalies) = 1

\* one anomalous index out of 10 in the latest session: no description
C20_BelowTenPercentReached ==
    /\ Analysed
    /\ Len(loaded) = 1
    /\ Len(loaded[1].magnitude) = 10
    /\ AnomalyCount(loaded[1].magnitude) = 1
    /\ analysis.anomalies = <<>>

\* |series[i] - mean| / stddev > threshold for the 1-based position i of a
\* series whose values are not all equal: the squares compared, both sides
\* times n^3
ZScoreAbove(series, i, threshold) ==
    LET n == Len(series)
        RECURSIVE Total(_), Squares(_)
        Total(k) == IF k = 0 THEN 0 ELSE series[k] + Total(k - 1)
        Deviation(k) == n * series[k] - Total(n)
        Squares(k) == IF k = 0 THEN 0
                      ELSE Deviation(k) * Deviation(k) + Squares(k - 1)
    IN n * Deviation(i) * Deviation(i) > threshold * threshold * Squares(n)

Constant(series) == \A i, j \in 1..Len(series) : series[i] = series[j]

\* C21: detectAnomalies returns, ascending and without duplicates, exactly
\* the (0-based) indices whose z-score exceeds the threshold, and no index
\* for a constant series or the empty one.
C21_AnomalousIndices ==
    lastOp = "detectAnomalies" =>
        /\ \A k \in 1..Len(result) - 1 : result[k] < result[k + 1]
        /\ {result[k] : k \in 1..Len(result)} =
             IF Constant(args.magnitude) THEN {}
             ELSE {i - 1 : i \in {j \in 1..Len(args.magnitude) :
                                    ZScoreAbove(args.magnitude, j, args.threshold)}}

\* one value of z-score 2.24 in a series of six
C21_Witness ==
    /\ lastOp = "detectAnomalies"
    /\ args = [magnitude |-> <<5, 29, 5, 5, 5, 5>>, threshold |-> 2]
    /\ result = <<1>>

\* a constant series has no anomalous index
C21_ConstantReached ==
    /\ lastOp = "detectAnomalies"
    /\ args.magnitude = <<5, 5, 5>>
    /\ result = <<>>

\* the sum of series[from..to], 0-based and inclusive
WindowSum(series, from, to) ==
    LET RECURSIVE Upto(_)
        Upto(k) == IF k < from THEN 0 ELSE series[k + 1] + Upto(k - 1)
    IN Upto(to)

\* C22: smoothData returns a sequence as long as its input for every
\* w >= 1, the input itself when w >= its length, and otherwise at index i
\* the sum of the input over [max(0, i - half), min(n - 1, i + half)],
\* half = floor(w / 2), divided by the number of points in that window.
C22_MovingAverage ==
    lastOp = "smoothData" =>
        LET n == Len(args.data)
            half == args.windowSize \div 2
            Low(i) == IF i - half > 0 THEN i - half ELSE 0
            High(i) == IF i + half < n - 1 THEN i + half ELSE n - 1
        IN /\ Len(result) = n
           /\ \A i \in 0..n - 1 : result[i + 1].den > 0
           /\ args.windowSize >= n =>
                \A i \in 0..n - 1 :
                    result[i + 1].num = args.data[i + 1] * result[i + 1].den
           /\ args.windowSize < n =>
                \A i \in 0..n - 1 :
                    result[i + 1].num * (High(i) - Low(i) + 1)
                      = WindowSum(args.data, Low(i), High(i)) * result[i + 1].den

\* a window of 3 over four values: 2 points at the ends, 3 inside
C22_Witness ==
    /\ lastOp = "smoothData"
    /\ args = [data |-> <<5, 29, 5, 0>>, windowSize |-> 3]
    /\ result = <<[num |-> 34, den |-> 2], [num |-> 39, den |-> 3],
                  [num |-> 34, den |-> 3], [num |-> 5, den |-> 2]>>

\* n is the least of the three lengths
LeastLength(n, data) ==
    /\ n <= Len(data.x) /\ n <= Len(data.y) /\ n <= Len(data.z)
    /\ n \in {Len(data.x), Len(data.y), Len(data.z)}

\* C23: calculateMagnitudeArray returns a series as long as the shortest
\* of the three axes, and a session assembled by stopRecording has a
\* magnitude series as long as the shortest accelerometer axis, which is
\* the number of buffered readings.
C23_MagnitudeLength ==
    /\ lastOp = "calculateMagnitudeArray" => LeastLength(Len(result), args.data)
    /\ lastOp = "assemble" =>
         /\ LeastLength(Len(result.body.magnitude), result.body.accelerometer)
         /\ Len(result.body.magnitude) = Len(args.allReadings)

\* axes of the lengths 3, 1 and 2 give one magnitude
C23_Witness ==
    /\ lastOp = "calculateMagnitudeArray"
    /\ args.data = [x |-> <<3, 0, 3>>, y |-> <<4>>, z |-> <<0, 0>>]
    /\ result = <<5>>

\* a session of three readings has three magnitudes
C23_AssembledReached ==
    /\ lastOp = "assemble"
    /\ Len(args.allReadings) = 3
    /\ result.body.magnitude = <<5, 5, 5>>
    /\ Len(result.body.accelerometer.y) = 3

RECURSIVE SplitOn(_, _)
\* the parts of a text between the occurrences of a separator
SplitOn(text, separator) ==
    IF \A i \in 1..Len(text) : text[i] # separator THEN <<text>>
    ELSE LET first == CHOOSE i \in 1..Len(text) :
                        /\ text[i] = separator
                        /\ \A j \in 1..i - 1 : text[j] # separator
         IN <<SubSeq(text, 1, first - 1)>>
              \o SplitOn(SubSeq(text, first + 1, Len(text)), separator)

\* the row is that of the session: ten columns, Yes/No flags, the notes last
RowOf(row, session) ==
    LET columns == SplitOn(row, ",")
        context == session.context
        Flag(f) == IF context # Null /\ Get(context)[f] = "true"
                   THEN <<"Yes">> ELSE <<"No">>
    IN /\ Len(columns) = Len(Headers)
       /\ columns[1] = session.id
       /\ columns[7] = Flag("caffeine")
       /\ columns[8] = Flag("sleepDeprived")
       /\ columns[9] = Flag("stress")
       /\ columns[10] = IF context = Null \/ Get(context).notes = Null
                        THEN <<>> ELSE Get(Get(context).notes)

NotesOf(session) ==
    IF session.context = Null \/ Get(session.context).notes = Null THEN <<>>
    ELSE Get(Get(session.context).notes)

\* C24: the CSV is the header line followed by one row per loaded
\* session, in history order, each row of exactly the ten header columns
\* with Yes/No flags and the notes (empty when missing) as the last field,
\* whatever the notes text.
C24_CsvRows ==
    lastOp = "exportSessionsAsCSV" =>
        LET lines == SplitOn(result, "\n")
        IN /\ Len(lines) = 1 + Len(args)
           /\ SplitOn(lines[1], ",") = Headers
           /\ \A i \in 1..Len(args) :
                i + 1 <= Len(lines) /\ RowOf(lines[i + 1], args[i])

\* the same, for notes that hold no comma and no line break
C24_CsvRowsOfPlainNotes ==
    (/\ lastOp = "exportSessionsAsCSV"
     /\ \A i \in 1..Len(args) : \A k \in 1..Len(NotesOf(args[i])) :
          NotesOf(args[i])[k] \notin {",", "\n"})
        => C24_CsvRows

\* {caffeine: true, stress: false, notes: ""} ends in ,Yes,No,No,
C24_ScenarioReached ==
    /\ lastOp = "exportSessionsAsCSV"
    /\ Len(args) = 1
    /\ args[1].context = Some([caffeine |-> "true", sleepDeprived |-> "unset",
                               stress |-> "false", notes |-> Some(<<>>)])
    /\ SubSeq(result, Len(result) - 6, Len(result))
         = <<",", "Yes", ",", "No", ",", "No", ",">>

Deletes == {"delete", "deleteMany", "deleteAgain", "deleteManyAgain"}

RECURSIVE Without(_, _)
\* a history less the sessions of the given ids, the rest in its order
Without(history, ids) ==
    IF history = <<>> THEN <<>>
    ELSE IF Head(history).id \in ids THEN Without(Tail(history), ids)
    ELSE <<Head(history)>> \o Without(Tail(history), ids)

\* C25: a deleteSessions(ids) that returns, its read of the store not
\* having failed, leaves as history the history before it less the
\* sessions of ids, every other session unchanged and in its order (the
\* history itself when none of ids is in it), and deleteSession(id) leaves
\* the store as deleteSessions([id]) does.
C25_DeleteRemovesExactlyIds ==
    lastOp \in Deletes =>
        /\ result = [st |-> Store, threw |-> threw]
        /\ (~threw /\ ~args.faults.get) =>
             /\ History(Store) = Without(args.before, args.ids)
             /\ (args.ids \cap IdsOf(args.before) = {} =>
                   History(Store) = args.before)

\* deleteSession(2) of the history 3, 2, 1, kept in the in-memory map
\* since an earlier call, leaves 3, 1
C25_Witness ==
    /\ lastOp = "deleteAgain"
    /\ ~isAsyncStorageAvailable
    /\ ~threw
    /\ args.ids = {2}
    /\ ~args.faults.get
    /\ args.before = <<NewSession(3, 3), NewSession(2, 2), NewSession(1, 1)>>
    /\ History(Store) = <<NewSession(3, 3), NewSession(1, 1)>>

\* the same with every fault let in
C25_DeleteUnderEveryFault ==
    (lastOp \in Deletes /\ ~threw) =>
        History(Store) = Without(args.before, args.ids)

\* a recording is on whose duration runs out before the clock stops, and
\* no countdown is left that would start another
RecordingWillRunOut ==
    /\ isRecording
    /\ countdowns = {}
    /\ \A t \in timers : t.startTime + Duration <= MaxTime

\* C26: with the progress timer going on, a recording that is on comes to
\* be off; and the timer's stop sets isRecording to false, clears the
\* progress timer and, the buffer holding a reading, hands a session built
\* from the buffer to saveSession.
C26_RecordingRunsOut ==
    /\ RecordingWillRunOut ~> ~isRecording
    /\ [][lastOp' = "timerStop" =>
            /\ ~isRecording'
            /\ progressIntervalRef' = Null
            /\ Get(progressIntervalRef) \notin {t.id : t \in timers'}
            /\ readingsRef # <<>> =>
                 \E c \in 1..MaxCalls :
                    /\ calls[c].pc = "free"
                    /\ calls'[c].pc = "saving"
                    /\ calls'[c].session.body.magnitude
                         = [i \in 1..Len(readingsRef) |->
                              CalculateMagnitude(readingsRef[i].accelerometer[1],
                                                 readingsRef[i].accelerometer[2],
                                                 readingsRef[i].accelerometer[3])]]_vars

\* the timer has stopped a recording and a session is with saveSession
C26_Witness ==
    /\ lastOp = "timerStop"
    /\ ~isRecording
    /\ timers = {}
    /\ \E c \in 1..MaxCalls : calls[c].pc = "saving"

\* the recordings started so far: the countdowns that have run down
RecordingsStarted == (nextStart - 1) - Cardinality(countdowns)

\* C27: no more sessions are persisted than recordings were started, so
\* that no recording yields two sessions, however often and whenever
\* stopRecording is invoked.
C27_OneSessionPerRecording == Cardinality(PersistedIds) <= RecordingsStarted

\* C28: a loadAllSessions never returns a session that a completed
\* deleteSession, deleteSessions or clearAllSessions removed (a session id
\* is never saved twice), whatever the storage faults.
C28_DeletedStayDeleted ==
    lastOp = "load" => IdsOf(lastLoad) \cap removed = {}

\* C29: every reading in the buffer of a recording holds accelerometer and
\* gyroscope values that the subscriptions delivered during that recording,
\* never a value kept from an earlier recording.
C29_ReadingsOfThisRecording ==
    \A i \in 1..Len(readingsRef) :
        /\ readingsRef[i].accelerometer = RecordingSample(LatestStart)
        /\ readingsRef[i].gyroscope = RecordingSample(LatestStart)

\* C30: the context stored in a persisted session (flags and notes) is the
\* context the user had set at the moment the recording stopped, whether
\* the progress interval or the Stop button stopped it.
C30_StoredContextIsCurrent ==
    [][lastOp' \in Stops => result' = Some(HookContext(args))]_vars

\* the same for the Stop button alone
C30_StopButtonStoresCurrent ==
    [][lastOp' = "handleStop" => result' = Some(HookContext(args))]_vars

\* a context set before the start and left alone is stored by the timeout
C30_TimeoutStoresContextOfStart ==
    [][lastOp' = "timerStop" => result' = args.stopRecording]_vars

====
